---------------------------- MODULE Spec2Model ----------------------------
(***************************************************************************)
(* Model of the WRLC Alma item checks function app: the SCF webhook, the   *)
(* staging table, and the scheduled, queue-continued re-verification run   *)
(* (DailyScfReportTimer / ProcessScfNoRowTrayQueue).                       *)
(***************************************************************************)
EXTENDS Integers, Sequences, FiniteSets, Bags, TLC

(***************************************************************************)
(* Bounds of the model.                                                    *)
(***************************************************************************)
NumBarcodes == 3        \* barcodes known to the upstream platform
MaxRuns == 2            \* runs the timer may start
MaxBatchSize == 2       \* batch_size is 50 in the source; the model checks 1..MaxBatchSize
MaxWorkers == 2         \* finalizing invocations that may be in progress at once
MaxWebhooks == 1        \* webhook deliveries
MaxUpstreamChanges == 1 \* edits of items on the upstream platform
MaxCrashes == 1         \* worker invocations that fail and are retried
MaxDups == 1            \* messages delivered once more after a successful invocation
MaxDequeue == 2         \* deliveries after which a failing message is set aside
MaxMarks == 2           \* markers SCFNoX.process may append to one barcode
MaxStagings == 3        \* webhook deliveries where staging alone is looked at

Barcodes == 1..NumBarcodes
RunIds == 1..MaxRuns

Min(a, b) == IF a < b THEN a ELSE b

(***************************************************************************)
(* Strings are sequences of tokens: a token is one character, or one of    *)
(* the multi-character constants of config.py taken as a unit.             *)
(***************************************************************************)
None == [isNone |-> TRUE, v |-> <<>>]
Some(s) == [isNone |-> FALSE, v |-> s]

EXCLUDED_NOTES == { <<"At WRLC waiting to be processed">>, <<"DO NOT DELETE">>, <<"WD">> }

SKIP_LOCATIONS == { "WRLC Gemtrac Drawer", "WRLC Microfilm Cabinet",
                    "WRLC Microfiche Cabinet",
                    "Low Temperature Media Preservation Unit  # 1 @ SCF" }

PROVENANCE == { "Property of American University",
                "Property of American University Law School",
                "Property of Catholic University of America",
                "Property of Gallaudet University",
                "Property of George Mason University",
                "Property of George Washington Himmelfarb",
                "Property of George Washington University",
                "Property of George Washington University School of Law",
                "Property of Georgetown University",
                "Property of Georgetown University School of Law",
                "Property of Howard University",
                "Property of Marymount University",
                "Property of National Security Archive",
                "Property of University of the District of Columbia",
                "Property of University of the District of Columbia Jazz Archives" }

\* loc in field_value: the location name occurs in the string
Contains(s, tok) == \E i \in 1..Len(s) : s[i] = tok

\* 'discard' in value.lower(): location values are single tokens, lower-cased here
Lower(tok) == IF tok \in {"DISCARD", "Discard"} THEN "discard" ELSE tok
HasDiscardExact(s) == \E i \in 1..Len(s) : s[i] = "discard"

HasDiscard(s) == \E i \in 1..Len(s) : Lower(s[i]) = "discard"

Newline == "\n"

\* re.search(r"^R.*M.*S", s) is not None: "^" is the start of the string and
\* "." is any character except a newline
MatchesRowTray(s) ==
    /\ Len(s) >= 1
    /\ s[1] = "R"
    /\ \E i \in 2..Len(s) :
         /\ s[i] = "M"
         /\ \E j \in (i + 1)..Len(s) :
              /\ s[j] = "S"
              /\ \A k \in 2..(j - 1) : s[k] # Newline

(***************************************************************************)
(* Items.  An Item is the record the upstream platform returns for a       *)
(* barcode; ItemKinds are the states an item can be in upstream.           *)
(***************************************************************************)
Item(b, alt, note, loc, temp, prov) ==
    [barcode |-> b, alternative_call_number |-> alt, internal_note_1 |-> note,
     location |-> loc, temp_location |-> temp, provenance |-> prov]

ItemKinds == {"failing", "passing", "discard"}
AlmaStates == ItemKinds \cup {"absent"}

\* the values a row/tray field is given upstream
AltValues ==
    { [n |-> "none", v |-> None],
      [n |-> "match", v |-> Some(<<"R", "1", "M", "2", "S">>)],
      [n |-> "wrong", v |-> Some(<<"A", "B", "C">>)],
      [n |-> "empty", v |-> Some(<<>>)],
      [n |-> "broken", v |-> Some(<<"R", Newline, "M", "S">>)],
      [n |-> "exempt", v |-> Some(<<"WRLC Gemtrac Drawer">>)] }

NoteValues ==
    AltValues \cup { [n |-> "keep", v |-> Some(<<"DO NOT DELETE">>)],
                     [n |-> "wd", v |-> Some(<<"WD">>)] }

\* the items that differ in their row/tray fields only, each under a name
RowTrayItems ==
    { [name |-> a.n \o "/" \o n.n, alt |-> a.v, note |-> n.v] :
        a \in AltValues, n \in NoteValues }

RowTrayKinds == { t.name : t \in RowTrayItems }

\* the values the fields the eligibility filter reads are given upstream
LocationValues ==
    { [n |-> "stacks", v |-> <<"stacks">>],
      [n |-> "Discard", v |-> <<"SCF", "Discard", "shelf">>],
      [n |-> "DISCARD", v |-> <<"DISCARD">>] }

TempLocationValues ==
    { [n |-> "none", v |-> None],
      [n |-> "empty", v |-> Some(<<>>)],
      [n |-> "stacks", v |-> Some(<<"stacks">>)],
      [n |-> "discard", v |-> Some(<<"discard">>)],
      [n |-> "Discard", v |-> Some(<<"Discard", "bin">>)] }

ProvenanceValues ==
    { [n |-> "none", v |-> None],
      [n |-> "member", v |-> Some("Property of Howard University")],
      [n |-> "other", v |-> Some("Property of Nobody")] }

\* the items that differ in these fields only, each under a name
FilterItems ==
    { [name |-> l.n \o ":" \o t.n \o ":" \o p.n, loc |-> l.v, temp |-> t.v,
       prov |-> p.v] :
        l \in LocationValues, t \in TempLocationValues, p \in ProvenanceValues }

FilterKinds == { t.name : t \in FilterItems }

ItemOfKind(b, k) ==
    CASE k = "failing" ->
           Item(b, Some(<<"A", "B", "C">>), None, <<"stacks">>, None,
                Some("Property of Howard University"))
      [] k = "passing" ->
           Item(b, Some(<<"R", "1", "M", "2", "S">>), None, <<"stacks">>, None,
                Some("Property of Howard University"))
      [] k = "discard" ->
           Item(b, None, None, <<"Discard">>, None,
                Some("Property of Howard University"))
      [] k \in FilterKinds ->
           LET t == CHOOSE t \in FilterItems : t.name = k
           IN Item(b, Some(<<"A", "B", "C">>), None, t.loc, t.temp, t.prov)
      [] k \in RowTrayKinds ->
           LET t == CHOOSE t \in RowTrayItems : t.name = k
           IN Item(b, t.alt, t.note, <<"stacks">>, None,
                   Some("Property of Howard University"))

(***************************************************************************)
(* SCFNoRowTray: the Row/Tray predicate.                                   *)
(***************************************************************************)
no_row_tray_data_either(item) ==
    item.alternative_call_number.isNone /\ item.internal_note_1.isNone

no_row_tray_data(item) == item.alternative_call_number.isNone

FieldWrongAnywhere(f) == ~f.isNone /\ ~MatchesRowTray(f.v)

FieldWrong(f) ==
    /\ ~f.isNone
    /\ ~(\E loc \in SKIP_LOCATIONS : Contains(f.v, loc))
    /\ ~MatchesRowTray(f.v)

wrong_row_tray_data(item) ==
    \/ FieldWrong(item.alternative_call_number)
    \/ FieldWrong(item.internal_note_1)

NoteNeverExcluded(item) == FALSE

NoteExcluded(item) ==
    /\ ~item.internal_note_1.isNone
    /\ item.internal_note_1.v \in EXCLUDED_NOTES

SCFNoRowTray_should_process(item) ==
    IF no_row_tray_data(item) \/ wrong_row_tray_data(item)
    THEN ~NoteExcluded(item)
    ELSE FALSE

(***************************************************************************)
(* SCFShared.should_process: the eligibility filter.  `check` is what the  *)
(* lookup of the "ScfShared" check returns; `script` is the outcome of the *)
(* successive get_item_by_barcode attempts ("ok", "net" for a              *)
(* RequestException, "api" for an AlmaApiError); `found` is the upstream   *)
(* record, or NoItem when the platform has none.  The result is the Item,  *)
(* or NoItem for None.                                                     *)
(***************************************************************************)
NoItem == [skip |-> TRUE]
max_retries == 3

CheckStates == {"ok", "nokey", "absent"}

\* the attempt at which the retry loop stops: the first "ok" or "api", or the
\* last attempt when every one is a network error
\* a loop that tries again after an AlmaApiError too
RECURSIVE StopAtRetryingAll(_, _)
StopAtRetryingAll(script, attempt) ==
    IF attempt >= max_retries \/ attempt >= Len(script) THEN attempt
    ELSE IF script[attempt] \in {"net", "api"}
         THEN StopAtRetryingAll(script, attempt + 1)
    ELSE attempt

RECURSIVE StopAt(_, _)
StopAt(script, attempt) ==
    IF attempt >= max_retries \/ attempt >= Len(script) THEN attempt
    ELSE IF script[attempt] = "net" THEN StopAt(script, attempt + 1)
    ELSE attempt

FetchScripts ==
    { <<"ok">>, <<"api">>, <<"net", "ok">>, <<"net", "net", "ok">>,
      <<"net", "net", "net">> }

\* a filter that hands on the item it accepts without its temporary location
SCFShared_clearing(check, script, found) ==
    IF check # "ok" \/ script[StopAt(script, 1)] # "ok" \/ found = NoItem
    THEN NoItem
    ELSE IF \/ (~found.temp_location.isNone) /\ HasDiscard(found.temp_location.v)
            \/ HasDiscard(found.location)
            \/ found.provenance.isNone
            \/ found.provenance.v \notin PROVENANCE
    THEN NoItem
    ELSE [found EXCEPT !.temp_location = None]

SCFShared_should_process(check, script, found) ==
    IF check # "ok" THEN NoItem
    ELSE LET last == script[StopAt(script, 1)] IN
         IF last # "ok" THEN NoItem
         ELSE IF found = NoItem THEN NoItem
         ELSE IF (~found.temp_location.isNone) /\ HasDiscard(found.temp_location.v)
              THEN NoItem
         ELSE IF HasDiscard(found.location) THEN NoItem
         ELSE IF found.provenance.isNone \/ found.provenance.v \notin PROVENANCE
              THEN NoItem
         ELSE found

IsItem(x) == x # NoItem

\* a script in which every attempt waits before the next
RECURSIVE SleepsAfterEvery(_, _)
SleepsAfterEvery(script, attempt) ==
    IF attempt > max_retries \/ attempt > Len(script) THEN <<>>
    ELSE IF script[attempt] = "net"
         THEN <<2 * attempt>> \o SleepsAfterEvery(script, attempt + 1)
    ELSE <<>>

\* the time.sleep calls of the retry loop from `attempt` on, in seconds:
\* attempt is range(max_retries) + 1, so 2 * (attempt + 1) of the source is 2 * attempt
RECURSIVE Sleeps(_, _)
Sleeps(script, attempt) ==
    IF attempt > max_retries \/ attempt > Len(script) THEN <<>>
    ELSE IF script[attempt] = "net"
         THEN IF attempt < max_retries
              THEN <<2 * attempt>> \o Sleeps(script, attempt + 1)
              ELSE <<>>
    ELSE <<>>

\* the outcomes the successive attempts can have, one more than is ever tried
RetryScripts ==
    FetchScripts \cup { <<"net", "api">>, <<"net", "net", "api">>,
                        <<"net", "net", "net", "ok">>, <<"api", "ok">> }

FetchesUnchecked(check, script) == StopAt(script, 1)

\* the number of get_item_by_barcode calls one should_process makes
Fetches(check, script) == IF check # "ok" THEN 0 ELSE StopAt(script, 1)

\* the waits one should_process makes
Waits(check, script) == IF check # "ok" THEN <<>> ELSE Sleeps(script, 1)

(***************************************************************************)
(* SCFNoX: the barcode-suffix predicate.  Barcodes are numbers in the      *)
(* model; barcode_text is the string a barcode stands for.                 *)
(***************************************************************************)
barcode_text(b) == IF b = NumBarcodes THEN <<ToString(b), "X">> ELSE <<ToString(b)>>

\* s.endswith(tok)
EndsWith(s, tok) == Len(s) >= 1 /\ s[Len(s)] = tok

SCFNoX_always(item) == TRUE

SCFNoX_should_process(item) == ~EndsWith(barcode_text(item.barcode), "X")

\* what ItemSource.update may do to a call
UpdateOutcomes == {"ok", "raises"}

\* a process that notifies before it saves the item
SCFNoX_process_notify_first(check, barcode, outcome) ==
    IF check = "absent"
    THEN [calls |-> <<>>, barcode |-> barcode, raised |-> FALSE]
    ELSE IF outcome = "raises"
    THEN [calls |-> <<"send_queue_message", "update_item">>,
          barcode |-> Append(barcode, "X"), raised |-> TRUE]
    ELSE [calls |-> <<"send_queue_message", "update_item">>,
          barcode |-> Append(barcode, "X"), raised |-> FALSE]

\* SCFNoX.process on an item of the given barcode: the calls it makes in
\* order, the barcode of its item afterwards, and whether it raised
SCFNoX_process(check, barcode, outcome) ==
    IF check = "absent"
    THEN [calls |-> <<>>, barcode |-> barcode, raised |-> FALSE]
    ELSE IF outcome = "raises"
    THEN [calls |-> <<"update_item">>, barcode |-> Append(barcode, "X"),
          raised |-> TRUE]
    ELSE [calls |-> <<"update_item", "send_queue_message">>,
          barcode |-> Append(barcode, "X"), raised |-> FALSE]

(***************************************************************************)
(* Storage: tables and blobs, as StorageService reads and writes them.     *)
(***************************************************************************)
SCF_NO_ROW_TRAY_CHECK_NAME == "SCFNoRowTray"
NOTIFIER_CONTAINER_NAME == "notifier"

StagingTableName == <<SCF_NO_ROW_TRAY_CHECK_NAME, 0>>
\* one results table for every run
SharedResultsTableName(run_id) == <<"scfnorowtrayresults", 0>>

ResultsTableName(run_id) == <<"scfnorowtrayresults", run_id>>

OriginalEntitiesBlobName(run_id) == <<run_id, "original-entities.json">>
BarcodesBlobName(run_id) == <<run_id, "barcodes-to-process.json">>

TableNames == {StagingTableName} \cup {ResultsTableName(r) : r \in RunIds}
BlobNames == {OriginalEntitiesBlobName(r) : r \in RunIds}
                \cup {BarcodesBlobName(r) : r \in RunIds}

NoTable == [exists |-> FALSE, rows |-> {}]
NoBlob == [exists |-> FALSE, data |-> <<>>]

SameKey(e1, e2) == e1.PartitionKey = e2.PartitionKey /\ e1.RowKey = e2.RowKey

get_entities(T, table_name, pk) ==
    IF T[table_name].exists
    THEN {e \in T[table_name].rows : e.PartitionKey = pk}
    ELSE {}

\* a write that removes the entity when its key is already there
upsert_entity_toggle(T, table_name, entity) ==
    [T EXCEPT ![table_name] =
        [exists |-> TRUE,
         rows |-> IF \E e \in @.rows : SameKey(e, entity)
                  THEN {e \in @.rows : ~SameKey(e, entity)}
                  ELSE @.rows \cup {entity}]]

upsert_entity(T, table_name, entity) ==
    [T EXCEPT ![table_name] =
        [exists |-> TRUE,
         rows |-> {e \in @.rows : ~SameKey(e, entity)} \cup {entity}]]

create_table_if_not_exists(T, table_name) ==
    [T EXCEPT ![table_name] = [exists |-> TRUE, rows |-> @.rows]]

delete_table(T, table_name) == [T EXCEPT ![table_name] = NoTable]

delete_entities_batch(T, table_name, entities) ==
    [T EXCEPT ![table_name] =
        [exists |-> @.exists,
         rows |-> {e \in @.rows : ~(\E d \in entities : SameKey(e, d))}]]

upload_blob_data(B, blob_name, data) ==
    [B EXCEPT ![blob_name] = [exists |-> TRUE, data |-> data]]

delete_blob(B, blob_name) == [B EXCEPT ![blob_name] = NoBlob]

\* Item.model_dump_json / Item.model_validate_json
model_dump_json(item) == <<"json", item>>
model_validate_json(text) == text[2]

StagedEntity(barcode) ==
    [PartitionKey |-> SCF_NO_ROW_TRAY_CHECK_NAME, RowKey |-> barcode]

ResultEntity(run_id, barcode, item) ==
    [PartitionKey |-> run_id, RowKey |-> barcode, ItemData |-> model_dump_json(item)]

\* a set of entities as the list a table query returns: ordered by RowKey
RECURSIVE SortedByRowKey(_)
SortedByRowKey(S) ==
    IF S = {} THEN <<>>
    ELSE LET m == CHOOSE e \in S : \A o \in S : e.RowKey <= o.RowKey
         IN <<m>> \o SortedByRowKey(S \ {m})

Range(s) == {s[i] : i \in 1..Len(s)}

(***************************************************************************)
(* State.                                                                  *)
(***************************************************************************)
VARIABLES
    batch_size,   \* the worker's batch_size
    envs,         \* what the environment may do to an eligibility check
    alma,         \* upstream platform: barcode -> the state of its item
    tables,       \* table storage: table name -> [exists, rows]
    blobs,        \* blob storage: blob name -> [exists, data]
    queue,        \* the processor queue: a bag of [body, dq]
    notifier,     \* the notifier queue: the notification requests sent so far
    workers,      \* finalizing invocations in progress: slot -> [pc, msg, ...]
    nextRun,      \* number of run ids generated so far
    webhooks,     \* webhook deliveries still to come
    changes,      \* upstream edits still to come
    crashes,      \* failing invocations still to come
    dups,         \* duplicate deliveries still to come
    reports,      \* the report blobs uploaded to the notifier container
    nox,          \* markers appended upstream, and what SCFNoX.process did last
    hooked,       \* the barcode the webhook handled last, for stating the properties
    reply,        \* what the webhook was given and did last, for stating the properties
    hist,         \* history of each run, for stating the properties
    lastBatch     \* the batch the worker processed last, for stating the properties

vars == <<batch_size, envs, nox, reports, hooked, reply, alma, tables, blobs, queue, notifier, workers, nextRun,
          webhooks, changes, crashes, dups, hist, lastBatch>>

(***************************************************************************)
(* Webhook requests.                                                       *)
(***************************************************************************)
NoSignature == <<>>

\* base64(HMAC-SHA256(secret, body)): equal only for equal keys and bodies
Signature(secret, body_bytes) == <<"hmac-sha256", secret, body_bytes>>

validate_any_signature(body_bytes, secret, received_signature) ==
    secret # "" /\ received_signature # NoSignature

validate_webhook_signature(body_bytes, secret, received_signature) ==
    IF secret = "" THEN FALSE
    ELSE IF received_signature = NoSignature THEN FALSE
    ELSE received_signature = Signature(secret, body_bytes)

SCF_WEBHOOK_SECRET == "k"

\* a body is no JSON, JSON that is not an object of objects, or an object
\* whose item.item_data.barcode is a barcode or is missing or empty (0)
\* the item as a change event describes it: its location, provenance, call
\* numbers and notes at the time of the event
PayloadKinds == {"passing", "discard"}

Bodies ==
    { [shape |-> "invalid", barcode |-> 0, item |-> "none"],
      [shape |-> "array", barcode |-> 0, item |-> "none"] }
      \cup { [shape |-> "object", barcode |-> b, item |-> k] :
                b \in 0..NumBarcodes, k \in PayloadKinds }

\* req.get_json() and the lookup of the barcode
ParseItem(body) ==
    CASE body.shape = "invalid" -> "ValueError"
      [] body.shape = "array" -> "Exception"
      [] body.shape = "object" /\ body.barcode = 0 -> "missing"
      [] OTHER -> "barcode"

Requests ==
    { [method |-> "GET", challenge |-> c, signature |-> NoSignature,
       body |-> [shape |-> "invalid", barcode |-> 0, item |-> "none"]] :
         c \in BOOLEAN }
      \cup UNION { { [method |-> "POST", challenge |-> FALSE,
                        signature |-> sig, body |-> body] :
                          sig \in { NoSignature } \cup
                                  { Signature(k, body) :
                                      k \in {SCF_WEBHOOK_SECRET, "other"} } } :
                      body \in Bodies }

EventOf(b) == [shape |-> "object", barcode |-> b, item |-> "passing"]

ValidDelivery(b) ==
    [method |-> "POST", challenge |-> FALSE,
     signature |-> Signature(SCF_WEBHOOK_SECRET, EventOf(b)),
     body |-> EventOf(b)]

\* AZURE_FUNCTIONS_ENVIRONMENT == "Development", and the configured secret
Production == [local_dev |-> FALSE, secret |-> SCF_WEBHOOK_SECRET]

Deployments ==
    { Production, [local_dev |-> TRUE, secret |-> SCF_WEBHOOK_SECRET],
      [local_dev |-> FALSE, secret |-> ""] }

NoReply ==
    [req |-> [method |-> "none"], deploy |-> Production,
     env |-> [check |-> "none", script |-> <<>>], fault |-> FALSE, status |-> 0,
     fetches |-> 0, waits |-> <<>>, eligible |-> FALSE, no_x |-> FALSE,
     updates |-> 0, staged |-> FALSE, had_record |-> FALSE]

\* what the environment does to the eligibility check of one barcode
EnvCases ==
    { [check |-> "ok", script |-> <<"ok">>],
      [check |-> "ok", script |-> <<"net", "net", "net">>],
      [check |-> "absent", script |-> <<"ok">>] }

\* the eligibility checks that meet no failure
CleanEnv == { [check |-> "ok", script |-> <<"ok">>] }

Idle == [pc |-> "idle"]

NoHist == [started |-> FALSE, worklist |-> <<>>, invocations |-> <<>>,
           drains |-> 0, finished |-> 0, failedAt |-> "none", dropped |-> FALSE,
           stagedSince |-> {}, stagedAfterDrain |-> {}, skipped |-> {}]

NoBatch == [run_id |-> 0, offset |-> 0, chunk |-> <<>>, fetched |-> <<>>, done |-> 0]

\* what the upstream platform returns for a barcode
get_item_by_barcode(b) ==
    IF alma[b] = "absent" THEN NoItem ELSE ItemOfKind(b, alma[b])

StagedBarcodes == {e.RowKey : e \in tables[StagingTableName].rows}

StagingFor(S) ==
    [exists |-> TRUE, rows |-> {StagedEntity(b) : b \in S}]

NoNoX ==
    [marks |-> [b \in Barcodes |-> 0], item |-> 0, check |-> "none",
     outcome |-> "none", given |-> <<>>, calls |-> <<>>, barcode |-> <<>>,
     raised |-> FALSE]

RECURSIVE Marked(_, _)
Marked(text, n) == IF n = 0 THEN text ELSE Marked(Append(text, "X"), n - 1)

\* the barcode the upstream platform holds for the item first known as b
CanonicalBarcode(b) == Marked(barcode_text(b), nox.marks[b])

Start(E, A, S, nw, nc, nf, nd, firstRun) ==
    /\ batch_size \in 1..MaxBatchSize
    /\ envs = E
    /\ alma \in A
    /\ \E staged \in S :
         tables = [t \in TableNames |->
                     IF t = StagingTableName THEN StagingFor(staged) ELSE NoTable]
    /\ blobs = [n \in BlobNames |-> NoBlob]
    /\ queue = EmptyBag
    /\ notifier = <<>>
    /\ workers = [w \in 1..MaxWorkers |-> Idle]
    /\ nextRun = firstRun - 1
    /\ webhooks = nw /\ changes = nc /\ crashes = nf /\ dups = nd
    /\ hooked = 0
    /\ reply = NoReply
    /\ nox = NoNoX
    /\ reports = {}
    /\ hist = [r \in RunIds |-> NoHist]
    /\ lastBatch = NoBatch

\* one run beside the webhook and the upstream platform; every message is
\* delivered exactly once and no invocation fails
Init ==
    Start(EnvCases, {[b \in Barcodes |-> "failing"]}, SUBSET Barcodes,
          MaxWebhooks, MaxUpstreamChanges, 0, 0, MaxRuns)

\* several runs beside the webhook; every message is delivered exactly once
\* and no invocation fails
InitRuns ==
    Start(CleanEnv, [Barcodes -> {"failing", "passing"}],
          {Barcodes \ {b} : b \in Barcodes}, MaxWebhooks, 0, 0, 0, 1)

\* one run whose messages are delivered once, with invocations that fail
\* until the platform gives their message up, and with messages that do not
\* parse
\* barcode 1 is any of the row/tray items; it may have been staged before
\* its fields were given the values they now have
InitItems ==
    Start(CleanEnv,
          { [b \in Barcodes |-> IF b = 1 THEN k ELSE "failing"] : k \in RowTrayKinds },
          { {}, {1}, {1, 3} }, MaxWebhooks, 0, 0, 0, MaxRuns)

\* every outcome of the eligibility check; barcode 1 is any of the items the
\* filter tells apart, or is unknown upstream
HookEnvs == [check : CheckStates, script : RetryScripts]

InitHooks ==
    Start(HookEnvs,
          { [b \in Barcodes |-> IF b = 1 THEN k ELSE "failing"] :
              k \in FilterKinds \cup {"absent"} },
          { {}, {1} }, MaxWebhooks, 0, 0, 0, MaxRuns)

\* nothing is staged; the webhook is delivered MaxStagings times
InitStaging ==
    Start(CleanEnv, [Barcodes -> {"failing", "passing"}], { {} },
          MaxStagings, 0, 0, 0, MaxRuns)

InitDrops ==
    Start(CleanEnv, [Barcodes -> {"failing", "passing"}], {Barcodes},
          0, 0, MaxDequeue, 0, MaxRuns)

\* one run, under at-least-once delivery and failing invocations, the
\* upstream items unchanged
InitFaults ==
    Start(CleanEnv, [Barcodes -> {"failing", "passing"}], {Barcodes},
          0, 0, MaxCrashes, MaxDups, MaxRuns)

(***************************************************************************)
(* The upstream platform: an item is edited, withdrawn or created.         *)
(***************************************************************************)
UpstreamChange ==
    /\ changes > 0
    /\ \E b \in Barcodes, k \in AlmaStates :
         /\ k # alma[b]
         /\ alma' = [alma EXCEPT ![b] = k]
    /\ changes' = changes - 1
    /\ UNCHANGED <<batch_size, envs, nox, reports, hooked, reply, tables, blobs, queue, notifier, workers, nextRun,
                   webhooks, crashes, dups, hist, lastBatch>>

(***************************************************************************)
(* SCFNoRowTray.stage: upsert the staged record (check name, barcode).     *)
(***************************************************************************)
\* a staging that leaves this record alone in the table
stage_alone(T, item) ==
    [T EXCEPT ![StagingTableName] =
        [exists |-> TRUE, rows |-> {StagedEntity(item.barcode)}]]

stage(T, item) ==
    upsert_entity(T, StagingTableName, StagedEntity(item.barcode))

\* the runs whose snapshot is taken and whose drain has not happened yet
RunsInProgress == {r \in RunIds : hist[r].started /\ hist[r].drains = 0}
RunsDrained == {r \in RunIds : hist[r].started /\ hist[r].drains > 0}

NoteStaged(h, b) ==
    [r \in RunIds |->
        IF r \in RunsInProgress
        THEN [h[r] EXCEPT !.stagedSince = @ \cup {b}]
        ELSE IF r \in RunsDrained
        THEN [h[r] EXCEPT !.stagedAfterDrain = @ \cup {b}]
        ELSE h[r]]

(***************************************************************************)
(* ScfWebhook: a POST with a valid signature and a barcode.                *)
(***************************************************************************)
StageAll(item_data) == IsItem(item_data)

\* the item is an Item and scf_no_row_tray.should_process() is true
ToStage(item_data) ==
    IsItem(item_data) /\ SCFNoRowTray_should_process(item_data)

\* the handler for one request: `deploy` is the environment of the function
\* app, `env` what the environment does to the eligibility check, `fault`
\* whether the storage call of stage() raises
\* a handler that takes the item from the event
ItemInPayload(body) == ItemOfKind(body.barcode, body.item)

\* the item the handler gives to the checks: SCFShared is built from the
\* barcode alone and fetches the item
ItemOfEvent(body) == get_item_by_barcode(body.barcode)

ScfWebhookOn(req, deploy, env, fault) ==
    LET answered(status) ==
            /\ reply' = [NoReply EXCEPT !.req = req, !.deploy = deploy,
                                        !.status = status]
            /\ UNCHANGED <<tables, hist, hooked>>
    IN IF req.method # "POST" THEN answered(200)
       ELSE IF /\ ~deploy.local_dev
               /\ ~validate_webhook_signature(req.body, deploy.secret, req.signature)
       THEN answered(403)
       ELSE IF ParseItem(req.body) \in {"ValueError", "missing"} THEN answered(400)
       ELSE IF ParseItem(req.body) = "Exception" THEN answered(500)
       ELSE LET b == req.body.barcode
                item_data == SCFShared_should_process(env.check, env.script,
                                                      ItemOfEvent(req.body))
                to_stage == ToStage(item_data)
                raised == to_stage /\ fault
            IN /\ IF to_stage /\ ~raised
                  THEN /\ tables' = stage(tables, item_data)
                       /\ hist' = NoteStaged(hist, b)
                  ELSE UNCHANGED <<tables, hist>>
               /\ hooked' = b
               /\ reply' = [req |-> req, deploy |-> deploy, env |-> env,
                            fault |-> raised,
                            status |-> IF raised THEN 500 ELSE 200,
                            fetches |-> Fetches(env.check, env.script),
                            waits |-> Waits(env.check, env.script),
                            eligible |-> IsItem(item_data),
                            no_x |-> IsItem(item_data)
                                       /\ SCFNoX_should_process(item_data),
                            updates |-> 0,
                            staged |-> to_stage /\ ~raised,
                            had_record |-> b \in StagedBarcodes]

\* a delivery of the upstream platform to the deployed function app
ScfWebhook ==
    /\ webhooks > 0
    /\ \E b \in Barcodes, env \in envs :
         ScfWebhookOn(ValidDelivery(b), Production, env, FALSE)
    /\ webhooks' = webhooks - 1
    /\ UNCHANGED <<batch_size, envs, nox, reports, alma, blobs, queue, notifier, workers, nextRun,
                   changes, crashes, dups, lastBatch>>

\* any request, to any deployment
ScfWebhookRequest ==
    /\ webhooks > 0
    /\ \E req \in Requests, deploy \in Deployments, env \in envs, fault \in BOOLEAN :
         ScfWebhookOn(req, deploy, env, fault)
    /\ webhooks' = webhooks - 1
    /\ UNCHANGED <<batch_size, envs, nox, reports, alma, blobs, queue, notifier, workers, nextRun,
                   changes, crashes, dups, lastBatch>>

(***************************************************************************)
(* SCFNoX.process, applied to an item as the upstream platform holds it.   *)
(***************************************************************************)
NoXNotification(N, barcode) ==
    Append(N, [job_id |-> Len(N) + 1, items |-> {}, sent_by |-> 0,
               barcode |-> barcode])

SCFNoXProcess ==
    \E b \in Barcodes, check \in CheckStates, outcome \in UpdateOutcomes :
        /\ alma[b] # "absent"
        /\ nox.marks[b] < MaxMarks
        /\ LET given == CanonicalBarcode(b)
               done == SCFNoX_process(check, given, outcome)
               saved == \E i \in 1..Len(done.calls) :
                            done.calls[i] = "update_item" /\ outcome = "ok"
               sent == \E i \in 1..Len(done.calls) :
                           /\ done.calls[i] = "send_queue_message"
                           /\ \A j \in 1..(i - 1) :
                                done.calls[j] = "update_item" => outcome = "ok"
           IN /\ nox' = [marks |-> IF saved
                                   THEN [nox.marks EXCEPT ![b] = @ + 1]
                                   ELSE nox.marks,
                         item |-> b, check |-> check, outcome |-> outcome,
                         given |-> given, calls |-> done.calls,
                         barcode |-> done.barcode, raised |-> done.raised]
              /\ notifier' = IF sent THEN NoXNotification(notifier, done.barcode)
                             ELSE notifier
        /\ UNCHANGED <<batch_size, envs, reports, hooked, reply, alma, tables, blobs,
                       queue, workers, nextRun, webhooks, changes, crashes, dups, hist,
                       lastBatch>>

(***************************************************************************)
(* DailyScfReportTimer: the starter.                                       *)
(***************************************************************************)
Message(run_id, offset) ==
    [run_id |-> run_id,
     results_table_name |-> ResultsTableName(run_id),
     container_name |-> NOTIFIER_CONTAINER_NAME,
     original_entities_blob_name |-> OriginalEntitiesBlobName(run_id),
     barcodes_to_process_blob_name |-> BarcodesBlobName(run_id),
     offset |-> offset]

\* a queue client that loses every message handed to it
EnqueueLost(q, body) == q

Enqueue(q, body) == q (+) SetToBag({[body |-> body, dq |-> 0]})

\* a first message that starts after the first barcode
InitialMessageAtOne(run_id) == Message(run_id, 1)

\* the message that starts the run: offset 0
InitialMessage(run_id) == Message(run_id, 0)

\* a starter that goes on with nothing staged
NothingStagedIgnored(staged_items) == FALSE

\* if not staged_items
NothingStaged(staged_items) == staged_items = <<>>

\* a worklist without the last of several staged barcodes
BarcodesToProcessButLast(staged_items) ==
    [i \in 1..(IF Len(staged_items) > 1 THEN Len(staged_items) - 1 ELSE Len(staged_items))
        |-> staged_items[i].RowKey]

\* [entity['RowKey'] for entity in staged_items]
BarcodesToProcess(staged_items) ==
    [i \in 1..Len(staged_items) |-> staged_items[i].RowKey]

DailyScfReportTimer ==
    /\ nextRun < MaxRuns
    /\ LET staged_items ==
               SortedByRowKey(get_entities(tables, StagingTableName,
                                           SCF_NO_ROW_TRAY_CHECK_NAME))
       IN IF NothingStaged(staged_items)
          THEN UNCHANGED <<tables, blobs, queue, nextRun, hist>>
          ELSE LET run_id == nextRun + 1
                   barcodes_to_process == BarcodesToProcess(staged_items)
               IN /\ nextRun' = run_id
                  /\ blobs' = upload_blob_data(
                                 upload_blob_data(blobs, OriginalEntitiesBlobName(run_id),
                                                  staged_items),
                                 BarcodesBlobName(run_id), barcodes_to_process)
                  /\ tables' = create_table_if_not_exists(tables, ResultsTableName(run_id))
                  /\ queue' = Enqueue(queue, InitialMessage(run_id))
                  /\ hist' = [hist EXCEPT ![run_id] =
                                 [NoHist EXCEPT !.started = TRUE,
                                                !.worklist = barcodes_to_process]]
    /\ UNCHANGED <<batch_size, envs, nox, reports, hooked, reply, alma, notifier, workers, webhooks, changes, crashes,
                   dups, lastBatch>>

(***************************************************************************)
(* ProcessScfNoRowTrayQueue: the worker.                                   *)
(*                                                                         *)
(* One invocation downloads the worklist, processes its batch and either   *)
(* queues the next batch (one step, WorkerContinue) or finalizes.  A       *)
(* finalizing invocation is a sequence of steps, so that other invocations *)
(* interleave with it: the last batch with the report (WorkerFinalBatch),  *)
(* the drain of the staging table, the deletion of the results table, and  *)
(* the deletion of each blob.                                              *)
(***************************************************************************)
\* a slice that starts one barcode early
BarcodesOverlapping(all_barcodes, offset, size) ==
    SubSeq(all_barcodes, IF offset = 0 THEN 1 ELSE offset,
           Min(offset + size, Len(all_barcodes)))

\* all_barcodes[offset:offset + batch_size]
BarcodesForThisBatch(all_barcodes, offset, size) ==
    SubSeq(all_barcodes, offset + 1, Min(offset + size, Len(all_barcodes)))

NewOffset(offset, barcodes_for_this_batch) == offset + Len(barcodes_for_this_batch)

\* a worker that goes on when the offset has reached the end of the worklist
MoreToProcessInclusive(new_offset, all_barcodes) == new_offset <= Len(all_barcodes)

MoreToProcess(new_offset, all_barcodes) == new_offset < Len(all_barcodes)

Fetched(chunk, env) ==
    [i \in 1..Len(chunk) |->
        SCFShared_should_process(env[i].check, env[i].script,
                                 get_item_by_barcode(chunk[i]))]

\* a worker that saves every eligible item
StillFailsUnchecked(item_data) == IsItem(item_data)

\* should the fetched item be saved to the results table
StillFails(item_data) ==
    IsItem(item_data) /\ SCFNoRowTray_should_process(item_data)

\* the loop over the batch, up to and including its k-th barcode
RECURSIVE ProcessBarcodes(_, _, _, _, _)
ProcessBarcodes(T, body, chunk, fetched, k) ==
    IF k = 0 THEN T
    ELSE LET T0 == ProcessBarcodes(T, body, chunk, fetched, k - 1)
         IN IF StillFails(fetched[k])
            THEN upsert_entity(T0, body.results_table_name,
                               ResultEntity(body.run_id, chunk[k], fetched[k]))
            ELSE T0

NextMessageElsewhere(body, new_offset) ==
    [body EXCEPT !.offset = new_offset, !.container_name = "elsewhere"]

NextMessage(body, new_offset) == [body EXCEPT !.offset = new_offset]

\* the entities of the run in its results table, as items
ItemsStillFailing(T, body) ==
    {model_validate_json(e.ItemData) :
        e \in get_entities(T, body.results_table_name, body.run_id)}

\* a drain of the first original entity only
DrainFirstOnly(original_entities) ==
    IF original_entities = <<>> THEN {} ELSE {original_entities[1]}

\* a drain of every barcode, staged at the snapshot or not
DrainEverything(original_entities) == {StagedEntity(b) : b \in Barcodes}

\* a drain of the entities of the items some run has recorded
DrainRecorded(original_entities) ==
    {e \in Range(original_entities) :
        \E t \in TableNames \ {StagingTableName} :
            \E row \in tables[t].rows : row.RowKey = e.RowKey}

\* the entities the drain deletes from the staging table
DrainTargets(original_entities) == Range(original_entities)

\* the fields the worker reads from the message
RequiredFields ==
    {"run_id", "results_table_name", "container_name", "original_entities_blob_name",
     "barcodes_to_process_blob_name", "offset"}

\* json.loads and the six lookups raise neither JSONDecodeError nor KeyError
Parses(body) == RequiredFields \subseteq DOMAIN body

\* bodies the worker cannot parse: text that is not JSON, and a message of
\* the starter with one field left out
MalformedBodies ==
    {[unparsable |-> TRUE]}
        \cup {[f \in RequiredFields \ {x} |-> Message(1, 0)[f]] : x \in RequiredFields}

\* a worker that queues the first message of a run for a message it gives up
DropAndRestart(q, m) == Enqueue(q (-) SetToBag({m}), Message(1, 0))

\* the worker logs the error and returns: the message is consumed
DropMessage(q, m) == q (-) SetToBag({m})

\* this delivery is the last one the platform makes of the message
Exhausted(m) == m.dq + 1 >= MaxDequeue

\* a platform that delivers a failing message again without end
RequeueAlways(q, m) == q (+) SetToBag({[m EXCEPT !.dq = @ + 1]})

Requeue(q, m) ==
    IF m.dq + 1 < MaxDequeue
    THEN q (+) SetToBag({[m EXCEPT !.dq = @ + 1]})
    ELSE q

\* a worker that hands its message on, one barcode further, whenever it
\* takes one
TakeAndReemit(q, m) ==
    Enqueue(q (-) SetToBag({m}), [m.body EXCEPT !.offset = @ + 1])

Take(q, m) == q (-) SetToBag({m})

FreeSlot(w) ==
    /\ workers[w] = Idle
    /\ \A v \in 1..MaxWorkers : v < w => workers[v] # Idle

WorklistReadable(body) == blobs[body.barcodes_to_process_blob_name].exists

Batch(body, chunk, fetched, k) ==
    [run_id |-> body.run_id, offset |-> body.offset, chunk |-> chunk,
     fetched |-> fetched, done |-> k]

\* the run of a message whose invocation failed is left without a message
\* when the delivery was the last one
NoteFailure(h, m) ==
    IF Exhausted(m) THEN [h EXCEPT ![m.body.run_id].dropped = TRUE] ELSE h

\* the barcodes of a batch for which the eligibility check returned no item
Skipped(chunk, fetched) ==
    {chunk[i] : i \in {j \in 1..Len(chunk) : ~IsItem(fetched[j])}}

NoteSkips(h, body, chunk, fetched) ==
    [h EXCEPT ![body.run_id].skipped = @ \cup Skipped(chunk, fetched)]

NoteInvocation(h, body, chunk, final) ==
    [h EXCEPT ![body.run_id].invocations =
        Append(@, [offset |-> body.offset, chunk |-> chunk, final |-> final])]

\* the blob of barcodes is gone: the error is logged and the message consumed
WorkerDrop ==
    \E m \in BagToSet(queue) :
        /\ Parses(m.body)
        /\ ~WorklistReadable(m.body)
        /\ queue' = DropMessage(queue, m)
        /\ UNCHANGED <<batch_size, envs, nox, reports, hooked, reply, alma, tables, blobs, notifier, workers, nextRun,
                       webhooks, changes, crashes, dups, hist, lastBatch>>

\* a message that does not parse: the error is logged and the message consumed
WorkerParseError ==
    \E m \in BagToSet(queue) :
        /\ ~Parses(m.body)
        /\ queue' = DropMessage(queue, m)
        /\ UNCHANGED <<batch_size, envs, nox, reports, hooked, reply, alma, tables, blobs, notifier, workers, nextRun,
                       webhooks, changes, crashes, dups, hist, lastBatch>>

\* the download of the blob of barcodes raises, the blob being there: the
\* error is logged and the message consumed
WorklistReadFault ==
    /\ crashes > 0
    /\ \E m \in BagToSet(queue) :
        /\ Parses(m.body)
        /\ WorklistReadable(m.body)
        /\ queue' = DropMessage(queue, m)
        /\ hist' = [hist EXCEPT ![m.body.run_id].dropped = TRUE]
    /\ crashes' = crashes - 1
    /\ UNCHANGED <<batch_size, envs, nox, reports, hooked, reply, alma, tables, blobs, notifier, workers, nextRun,
                   webhooks, changes, dups, lastBatch>>

\* a message the worker cannot parse arrives on the processor queue, one
\* at a time
ForeignMessage ==
    /\ \A m \in BagToSet(queue) : Parses(m.body)
    /\ \E body \in MalformedBodies : queue' = Enqueue(queue, body)
    /\ UNCHANGED <<batch_size, envs, nox, reports, hooked, reply, alma, tables, blobs, notifier, workers, nextRun,
                   webhooks, changes, crashes, dups, hist, lastBatch>>

\* a batch that is not the last: process it and queue the next one; with
\* `again` the consumed message is delivered once more later
ContinueStep(again) ==
    \E m \in BagToSet(queue) :
        /\ Parses(m.body)
        /\ WorklistReadable(m.body)
        /\ LET body == m.body
               all_barcodes == blobs[body.barcodes_to_process_blob_name].data
               chunk == BarcodesForThisBatch(all_barcodes, body.offset, batch_size)
               new_offset == NewOffset(body.offset, chunk)
           IN /\ MoreToProcess(new_offset, all_barcodes)
              /\ \E env \in [1..Len(chunk) -> envs] :
                   LET fetched == Fetched(chunk, env)
                   IN /\ tables' = ProcessBarcodes(tables, body, chunk, fetched, Len(chunk))
                      /\ lastBatch' = Batch(body, chunk, fetched, Len(chunk))
                      /\ hist' = NoteSkips(NoteInvocation(hist, body, chunk, FALSE),
                                           body, chunk, fetched)
              /\ queue' = Enqueue(IF again THEN queue ELSE Take(queue, m),
                                  NextMessage(body, new_offset))
        /\ UNCHANGED <<batch_size, envs, nox, reports, hooked, reply, alma, blobs, notifier, workers, nextRun,
                       webhooks, changes, crashes>>

WorkerContinue == ContinueStep(FALSE) /\ UNCHANGED dups

WorkerContinueRedelivered ==
    /\ dups > 0
    /\ ContinueStep(TRUE)
    /\ dups' = dups - 1

(***************************************************************************)
(* ScfNoRowTrayReport.process: one notification request for the items      *)
(* still failing, unless the check definition is missing.                  *)
(***************************************************************************)
ReportChecks == {"ok", "absent"}

\* a report handler that does not look for the definition of its check
ReportUnchecked(N, check, items_still_failing, run_id) ==
    Append(N, [job_id |-> Len(N) + 1, items |-> items_still_failing,
               sent_by |-> run_id])

Report(N, check, items_still_failing, run_id) ==
    IF check = "absent" THEN N
    ELSE Append(N, [job_id |-> Len(N) + 1, items |-> items_still_failing,
                    sent_by |-> run_id])

\* a worker that reports whatever the results table holds
\* the blob ScfNoRowTrayReport.process uploads before it sends the request
AddendumBlobName(job_id) == <<job_id, "addendum.html">>

ReportBlob(R, check, N) ==
    IF check = "absent" THEN R ELSE R \cup {AddendumBlobName(Len(N) + 1)}

ReportBlobIfAny(R, check, items_still_failing, N) ==
    IF items_still_failing # {} THEN ReportBlob(R, check, N) ELSE R

ReportAlways(N, check, items_still_failing, run_id) ==
    Report(N, check, items_still_failing, run_id)

\* the report is made when there are items still failing
ReportIfAny(N, check, items_still_failing, run_id) ==
    IF items_still_failing # {}
    THEN Report(N, check, items_still_failing, run_id)
    ELSE N

\* the last batch: process it, then query the results table and report
WorkerFinalBatch ==
    \E m \in BagToSet(queue), w \in 1..MaxWorkers :
        /\ FreeSlot(w)
        /\ Parses(m.body)
        /\ WorklistReadable(m.body)
        /\ LET body == m.body
               all_barcodes == blobs[body.barcodes_to_process_blob_name].data
               chunk == BarcodesForThisBatch(all_barcodes, body.offset, batch_size)
               new_offset == NewOffset(body.offset, chunk)
           IN /\ ~MoreToProcess(new_offset, all_barcodes)
              /\ \E env \in [1..Len(chunk) -> envs], check \in ReportChecks :
                   LET fetched == Fetched(chunk, env)
                       T1 == ProcessBarcodes(tables, body, chunk, fetched, Len(chunk))
                       items_still_failing == ItemsStillFailing(T1, body)
                       N1 == ReportIfAny(notifier, check, items_still_failing,
                                         body.run_id)
                   IN /\ tables' = T1
                      /\ lastBatch' = Batch(body, chunk, fetched, Len(chunk))
                      /\ notifier' = N1
                      /\ reports' = ReportBlobIfAny(reports, check,
                                                    items_still_failing, notifier)
                      /\ workers' = [workers EXCEPT ![w] =
                                        [pc |-> "drain", msg |-> m,
                                         report_check |-> check]]
                      /\ hist' = NoteSkips(NoteInvocation(hist, body, chunk, TRUE),
                                           body, chunk, fetched)
        /\ queue' = Take(queue, m)
        /\ UNCHANGED <<batch_size, envs, nox, hooked, reply, alma, blobs, nextRun, webhooks,
                       changes, crashes, dups>>

\* download the original entities and delete them from the staging table
FinalDrain ==
    \E w \in 1..MaxWorkers :
        /\ workers[w].pc = "drain"
        /\ LET body == workers[w].msg.body
               blob == blobs[body.original_entities_blob_name]
           IN /\ blob.exists
              /\ tables' = delete_entities_batch(tables, StagingTableName,
                                                 DrainTargets(blob.data))
              /\ hist' = [hist EXCEPT ![body.run_id].drains = @ + 1]
        /\ workers' = [workers EXCEPT ![w].pc = "delete_table"]
        /\ UNCHANGED <<batch_size, envs, nox, reports, hooked, reply, alma, blobs, queue, notifier, nextRun,
                       webhooks, changes, crashes, dups, lastBatch>>

\* the original entities are gone: the download raises, the invocation fails
FinalDrainFails ==
    \E w \in 1..MaxWorkers :
        /\ workers[w].pc = "drain"
        /\ ~blobs[workers[w].msg.body.original_entities_blob_name].exists
        /\ queue' = Requeue(queue, workers[w].msg)
        /\ workers' = [workers EXCEPT ![w] = Idle]
        /\ hist' = NoteFailure(hist, workers[w].msg)
        /\ UNCHANGED <<batch_size, envs, nox, reports, hooked, reply, alma, tables, blobs, notifier, nextRun,
                       webhooks, changes, crashes, dups, lastBatch>>

FinalDeleteTable ==
    \E w \in 1..MaxWorkers :
        /\ workers[w].pc = "delete_table"
        /\ tables' = delete_table(tables, workers[w].msg.body.results_table_name)
        /\ workers' = [workers EXCEPT ![w].pc = "delete_original_entities"]
        /\ UNCHANGED <<batch_size, envs, nox, reports, hooked, reply, alma, blobs, queue, notifier, nextRun,
                       webhooks, changes, crashes, dups, hist, lastBatch>>

FinalDeleteOriginalEntities ==
    \E w \in 1..MaxWorkers :
        /\ workers[w].pc = "delete_original_entities"
        /\ blobs' = delete_blob(blobs, workers[w].msg.body.original_entities_blob_name)
        /\ workers' = [workers EXCEPT ![w].pc = "delete_barcodes"]
        /\ UNCHANGED <<batch_size, envs, nox, reports, hooked, reply, alma, tables, queue, notifier, nextRun,
                       webhooks, changes, crashes, dups, hist, lastBatch>>

\* delete the blob of barcodes and return: the message is done; with `again`
\* it is delivered once more later
ReturnStep(again) ==
    \E w \in 1..MaxWorkers :
        /\ workers[w].pc = "delete_barcodes"
        /\ blobs' = delete_blob(blobs, workers[w].msg.body.barcodes_to_process_blob_name)
        /\ workers' = [workers EXCEPT ![w] = Idle]
        /\ hist' = [hist EXCEPT ![workers[w].msg.body.run_id].finished = @ + 1]
        /\ queue' = IF again THEN queue (+) SetToBag({workers[w].msg}) ELSE queue
        /\ UNCHANGED <<batch_size, envs, nox, reports, hooked, reply, alma, tables, notifier, nextRun,
                       webhooks, changes, crashes, lastBatch>>

FinalDeleteBarcodes == ReturnStep(FALSE) /\ UNCHANGED dups

FinalDeleteBarcodesRedelivered ==
    /\ dups > 0
    /\ ReturnStep(TRUE)
    /\ dups' = dups - 1

(***************************************************************************)
(* Failures: the host stops an invocation, or a storage call raises.  The  *)
(* message becomes visible again and the invocation is retried from its    *)
(* start.                                                                  *)
(***************************************************************************)
\* inside the loop over the batch, after k barcodes
CrashInBatch ==
    /\ crashes > 0
    /\ \E m \in BagToSet(queue) :
        /\ Parses(m.body)
        /\ WorklistReadable(m.body)
        /\ LET body == m.body
               all_barcodes == blobs[body.barcodes_to_process_blob_name].data
               chunk == BarcodesForThisBatch(all_barcodes, body.offset, batch_size)
           IN \E k \in 0..Len(chunk), env \in [1..Len(chunk) -> envs] :
                LET fetched == Fetched(chunk, env)
                IN /\ tables' = ProcessBarcodes(tables, body, chunk, fetched, k)
                   /\ lastBatch' = Batch(body, chunk, fetched, k)
        /\ queue' = Requeue(Take(queue, m), m)
        /\ hist' = NoteFailure(hist, m)
    /\ crashes' = crashes - 1
    /\ UNCHANGED <<batch_size, envs, nox, reports, hooked, reply, alma, blobs, notifier, workers, nextRun,
                   webhooks, changes, dups>>

\* between two steps of the finalization
CrashInFinal ==
    /\ crashes > 0
    /\ \E w \in 1..MaxWorkers :
        /\ workers[w] # Idle
        /\ queue' = Requeue(queue, workers[w].msg)
        /\ workers' = [workers EXCEPT ![w] = Idle]
        /\ hist' = NoteFailure(
                       [hist EXCEPT ![workers[w].msg.body.run_id].failedAt = workers[w].pc],
                       workers[w].msg)
    /\ crashes' = crashes - 1
    /\ UNCHANGED <<batch_size, envs, nox, reports, hooked, reply, alma, tables, blobs, notifier, nextRun,
                   webhooks, changes, dups, lastBatch>>

Next ==
    \/ UpstreamChange
    \/ ScfWebhook
    \/ DailyScfReportTimer
    \/ WorkerContinue
    \/ WorkerFinalBatch
    \/ FinalDrain
    \/ FinalDeleteTable
    \/ FinalDeleteOriginalEntities
    \/ FinalDeleteBarcodes

Spec == Init /\ [][Next]_vars

NextRuns ==
    \/ ScfWebhook
    \/ DailyScfReportTimer
    \/ WorkerContinue
    \/ WorkerFinalBatch
    \/ FinalDrain
    \/ FinalDeleteTable
    \/ FinalDeleteOriginalEntities
    \/ FinalDeleteBarcodes

SpecRuns == InitRuns /\ [][NextRuns]_vars

NextItems ==
    \/ ScfWebhook
    \/ DailyScfReportTimer
    \/ WorkerContinue
    \/ WorkerFinalBatch
    \/ FinalDrain
    \/ FinalDeleteTable
    \/ FinalDeleteOriginalEntities
    \/ FinalDeleteBarcodes

SpecItems == InitItems /\ [][NextItems]_vars

NextHooks == ScfWebhookRequest

SpecHooks == InitHooks /\ [][NextHooks]_vars

NextStaging == ScfWebhook

SpecStaging == InitStaging /\ [][NextStaging]_vars

NextFaults ==
    \/ DailyScfReportTimer
    \/ WorkerDrop
    \/ WorkerContinue
    \/ WorkerContinueRedelivered
    \/ WorkerFinalBatch
    \/ FinalDrain
    \/ FinalDrainFails
    \/ FinalDeleteTable
    \/ FinalDeleteOriginalEntities
    \/ FinalDeleteBarcodes
    \/ FinalDeleteBarcodesRedelivered
    \/ CrashInBatch
    \/ CrashInFinal

SpecFaults == InitFaults /\ [][NextFaults]_vars

NextDrops ==
    \/ DailyScfReportTimer
    \/ ForeignMessage
    \/ WorkerParseError
    \/ WorklistReadFault
    \/ WorkerContinue
    \/ WorkerFinalBatch
    \/ FinalDrain
    \/ FinalDrainFails
    \/ FinalDeleteTable
    \/ FinalDeleteOriginalEntities
    \/ FinalDeleteBarcodes
    \/ CrashInBatch
    \/ CrashInFinal

SpecDrops == InitDrops /\ [][NextDrops]_vars

\* The run under fair delivery: the queue trigger hands every queued message
\* to the worker, and an invocation that has started runs on to its return.
\* No message is dropped and no invocation fails.
InitLive ==
    Start(EnvCases, [Barcodes -> {"failing", "passing"}], {{1}, Barcodes},
          0, 0, 0, 0, 1)

NextLive ==
    \/ DailyScfReportTimer
    \/ WorkerContinue
    \/ WorkerFinalBatch
    \/ FinalDrain
    \/ FinalDeleteTable
    \/ FinalDeleteOriginalEntities
    \/ FinalDeleteBarcodes

FairDelivery ==
    /\ WF_vars(WorkerContinue)
    /\ WF_vars(WorkerFinalBatch)
    /\ WF_vars(FinalDrain)
    /\ WF_vars(FinalDeleteTable)
    /\ WF_vars(FinalDeleteOriginalEntities)
    /\ WF_vars(FinalDeleteBarcodes)

SpecLive == InitLive /\ [][NextLive]_vars /\ FairDelivery

InitNoX ==
    Start(CleanEnv, [Barcodes -> {"failing", "passing"}], { {} },
          0, 0, 0, 0, MaxRuns)

NextNoX == SCFNoXProcess

SpecNoX == InitNoX /\ [][NextNoX]_vars

(***************************************************************************)
(* Properties.                                                             *)
(***************************************************************************)
Worklist(r) == Range(hist[r].worklist)
ResultRows(r) == tables[ResultsTableName(r)].rows
RunStorageGone(r) ==
    /\ ~tables[ResultsTableName(r)].exists
    /\ ~blobs[OriginalEntitiesBlobName(r)].exists
    /\ ~blobs[BarcodesBlobName(r)].exists
Quiet == queue = EmptyBag /\ \A w \in 1..MaxWorkers : workers[w] = Idle
SentBy(r) == {i \in 1..Len(notifier) : notifier[i].sent_by = r}

\* C1: in a run of W >= 1 barcodes with batch size B, every message delivered
\* once and no invocation failing, the worker is invoked ceil(W/B) times and
\* only the last of these invocations finalizes: the i-th invocation starts
\* at offset (i-1)*B, it finalizes iff i = ceil(W/B), and a finished run
\* has had exactly ceil(W/B) invocations
C1_InvocationCount ==
    \A r \in RunIds : hist[r].started =>
        LET W == Len(hist[r].worklist)
            inv == hist[r].invocations
            n == (W + batch_size - 1) \div batch_size
        IN /\ W >= 1
           /\ Len(inv) <= n
           /\ \A i \in 1..Len(inv) :
                /\ inv[i].offset = (i - 1) * batch_size
                /\ inv[i].final <=> (i = n)
           /\ hist[r].finished <= 1
           /\ hist[r].finished = 1 => Len(inv) = n

\* a finished run whose worklist is an exact multiple of the batch size and
\* takes more than one invocation
C1_Witness ==
    \E r \in RunIds :
        /\ hist[r].finished = 1
        /\ Len(hist[r].worklist) = 2 * batch_size
        /\ Len(hist[r].invocations) = 2

\* C2: in a full run the chunks of the successive invocations are pairwise
\* disjoint, no chunk holds a barcode twice, and once the run has finished
\* their union is the whole worklist
C2_ChunksPartition ==
    \A r \in RunIds : hist[r].started =>
        LET inv == hist[r].invocations
        IN /\ \A i, j \in 1..Len(inv) :
                i # j => Range(inv[i].chunk) \cap Range(inv[j].chunk) = {}
           /\ \A i \in 1..Len(inv) :
                Cardinality(Range(inv[i].chunk)) = Len(inv[i].chunk)
           /\ hist[r].finished >= 1 =>
                UNION {Range(inv[i].chunk) : i \in 1..Len(inv)} = Worklist(r)

\* a finished run of three barcodes in two chunks of unequal size
C2_Witness ==
    \E r \in RunIds :
        /\ hist[r].finished = 1
        /\ Len(hist[r].worklist) = 3
        /\ Len(hist[r].invocations) = 2
        /\ Len(hist[r].invocations[2].chunk) = 1

\* C3 (amended): once the drain step of a run has been done, the staging
\* table holds no record for a barcode of the run's worklist, whatever the
\* re-verification said, other than the records a webhook staged after the
\* drain step
C3_Drained ==
    \A r \in RunIds : hist[r].drains >= 1 =>
        (Worklist(r) \cap StagedBarcodes) \subseteq hist[r].stagedAfterDrain

\* a finished run of two or more barcodes, one of them no longer failing,
\* none of them staged
C3_Witness ==
    \E r \in RunIds :
        /\ hist[r].finished = 1
        /\ Len(hist[r].worklist) >= 2
        /\ \E b \in Worklist(r) : alma[b] # "failing"
        /\ \E b \in Worklist(r) : alma[b] = "failing"
        /\ Worklist(r) \cap StagedBarcodes = {}

\* C3 as stated: when the finalization of a run completes, the staging table
\* holds no record for a barcode of the run's worklist
C3_Original ==
    [][\A r \in RunIds :
          hist'[r].finished > hist[r].finished =>
              Worklist(r) \cap {e.RowKey : e \in tables'[StagingTableName].rows} = {}]_vars

\* C4: an invocation writes the entity (run_id, barcode) to the results table
\* iff the barcode is in its chunk, the eligibility check returned an item
\* for it and the Row/Tray predicate is true on that item; the entity holds
\* that item; and the results table holds entities only for barcodes of the
\* worklist whose item failed the Row/Tray predicate
C4_Written ==
    [][\A r \in RunIds :
          LET before == tables[ResultsTableName(r)].rows
              after == tables'[ResultsTableName(r)].rows
              written == after \ before
              batch == lastBatch'
          IN /\ hist'[r].invocations = hist[r].invocations => written = {}
             /\ hist'[r].invocations # hist[r].invocations =>
                  /\ batch.run_id = r
                  /\ Range(batch.chunk) \subseteq Range(hist'[r].worklist)
                  /\ before \subseteq after
                  /\ \A b \in Barcodes :
                       (\E e \in written : e.RowKey = b)
                         <=> \E i \in 1..Len(batch.chunk) :
                               /\ batch.chunk[i] = b
                               /\ IsItem(batch.fetched[i])
                               /\ SCFNoRowTray_should_process(batch.fetched[i])
                  /\ \A i \in 1..Len(batch.chunk) :
                       (\E e \in written : e.RowKey = batch.chunk[i]) =>
                           ResultEntity(r, batch.chunk[i], batch.fetched[i]) \in written
             /\ \A e \in after :
                  /\ e.PartitionKey = r
                  /\ e.RowKey \in Range(hist'[r].worklist)
                  /\ SCFNoRowTray_should_process(model_validate_json(e.ItemData))]_vars

\* a batch of two barcodes: the item of one is saved, the item of the other
\* was fetched and passes the Row/Tray predicate and is not saved
C4_Witness ==
    /\ lastBatch.run_id \in RunIds
    /\ \E i, j \in 1..Len(lastBatch.chunk) :
         /\ IsItem(lastBatch.fetched[i])
         /\ ResultEntity(lastBatch.run_id, lastBatch.chunk[i], lastBatch.fetched[i])
               \in ResultRows(lastBatch.run_id)
         /\ IsItem(lastBatch.fetched[j])
         /\ ~SCFNoRowTray_should_process(lastBatch.fetched[j])
         /\ ~\E e \in ResultRows(lastBatch.run_id) : e.RowKey = lastBatch.chunk[j]

\* the items of the run's results table
ItemsRecorded(r) == {model_validate_json(e.ItemData) : e \in ResultRows(r)}

\* the notification requests of a run whose finalizing invocation has made
\* its report and not yet deleted the results table; needs_check says whether
\* a report is made only when the definition of the check resolves
ReportedOnce(needs_check) ==
    \A r \in RunIds :
        /\ Cardinality(SentBy(r)) <= 1
        /\ (\A i \in 1..Len(hist[r].invocations) : ~hist[r].invocations[i].final)
              => SentBy(r) = {}
        /\ \A w \in 1..MaxWorkers :
             (/\ workers[w] # Idle
              /\ workers[w].msg.body.run_id = r
              /\ workers[w].pc \in {"drain", "delete_table"}) =>
                 /\ Cardinality(SentBy(r)) =
                       IF /\ ItemsRecorded(r) # {}
                          /\ needs_check => workers[w].report_check = "ok"
                       THEN 1 ELSE 0
                 /\ \A i \in SentBy(r) : notifier[i].items = ItemsRecorded(r)

\* C5 (amended): at the finalization of a run one notification request is
\* sent when the results table is not empty and the definition of the check
\* resolves, and it covers the items recorded by every chunk of the run; none
\* is sent when the results table is empty or the definition is missing
C5_OneNotification == ReportedOnce(TRUE)

\* a run of two chunks, each with an item still failing, and its one
\* notification request, which covers both
C5_Witness ==
    \E r \in RunIds, w \in 1..MaxWorkers :
        /\ workers[w] # Idle
        /\ workers[w].msg.body.run_id = r
        /\ workers[w].pc = "drain"
        /\ Len(hist[r].invocations) = 2
        /\ \A i \in 1..2 :
             \E e \in ResultRows(r) : e.RowKey \in Range(hist[r].invocations[i].chunk)
        /\ Cardinality(SentBy(r)) = 1
        /\ \A i \in SentBy(r) : Cardinality(notifier[i].items) >= 2

\* C5 as stated: one notification request whenever the results table is not
\* empty
C5_Original == ReportedOnce(FALSE)

\* C6: when the finalizing invocation of a run returns, the results table of
\* the run, its blob of original entities and its blob of barcodes do not
\* exist
C6_Reclaimed ==
    [][\A r \in RunIds :
          hist'[r].finished > hist[r].finished =>
              /\ ~tables'[ResultsTableName(r)].exists
              /\ ~blobs'[OriginalEntitiesBlobName(r)].exists
              /\ ~blobs'[BarcodesBlobName(r)].exists]_vars

C8_RetrySucceeds ==
    \A r \in RunIds :
        (hist[r].failedAt # "none" /\ dups = MaxDups /\ Quiet) =>
            /\ RunStorageGone(r)
            /\ Worklist(r) \cap StagedBarcodes = {}

\* C9 (amended): a record a webhook staged after the snapshot of a run and
\* before the run's drain step is still in the staging table after the drain
\* step when its barcode is not in the run's worklist; a record staged after
\* the drain step is still there whatever its barcode
C9_StagedDuringRun ==
    \A r \in RunIds : hist[r].drains >= 1 =>
        ((hist[r].stagedSince \ Worklist(r)) \cup hist[r].stagedAfterDrain)
            \subseteq StagedBarcodes

\* a finished run during which a webhook staged a barcode that is not in the
\* worklist: the record is there
C9_Witness ==
    \E r \in RunIds :
        /\ hist[r].finished = 1
        /\ \E b \in hist[r].stagedSince \ Worklist(r) : b \in StagedBarcodes

\* C9 as stated: every record a webhook staged after the snapshot and before
\* the end of the finalization is in the staging table when the run has
\* finalized
C9_Original ==
    \A r \in RunIds : hist[r].finished >= 1 =>
        hist[r].stagedSince \subseteq StagedBarcodes

\* does run r take the step: every step of a run changes its history or one
\* of its invocations in progress
Acts(r) ==
    \/ hist'[r] # hist[r]
    \/ \E w \in 1..MaxWorkers :
         /\ workers'[w] # workers[w]
         /\ \/ workers[w] # Idle /\ workers[w].msg.body.run_id = r
            \/ workers'[w] # Idle /\ workers'[w].msg.body.run_id = r

\* C10: two runs do not interfere: the results table of a run holds only
\* entities of its own partition and worklist; a step that run r does not
\* take leaves r's results table, blobs, messages and notification requests
\* as they are; and the report of r holds the items of r's results table
C10_NoInterference ==
    [][\A r \in RunIds :
          /\ \A e \in tables'[ResultsTableName(r)].rows :
               e.PartitionKey = r /\ e.RowKey \in Range(hist'[r].worklist)
          /\ ~Acts(r) =>
               /\ tables'[ResultsTableName(r)] = tables[ResultsTableName(r)]
               /\ blobs'[OriginalEntitiesBlobName(r)] = blobs[OriginalEntitiesBlobName(r)]
               /\ blobs'[BarcodesBlobName(r)] = blobs[BarcodesBlobName(r)]
               /\ {m \in BagToSet(queue') : m.body.run_id = r}
                     = {m \in BagToSet(queue) : m.body.run_id = r}
               /\ {i \in 1..Len(notifier') : notifier'[i].sent_by = r} = SentBy(r)
          /\ \A i \in 1..Len(notifier') :
               (i > Len(notifier) /\ notifier'[i].sent_by = r) =>
                   notifier'[i].items =
                       {model_validate_json(e.ItemData) :
                           e \in tables'[ResultsTableName(r)].rows}]_vars

\* the first run has finished while the second, with another worklist, has
\* entities in its results table and its blobs
C10_Witness ==
    /\ hist[1].finished = 1
    /\ hist[2].started /\ hist[2].finished = 0
    /\ hist[1].worklist # hist[2].worklist
    /\ ResultRows(2) # {}
    /\ blobs[OriginalEntitiesBlobName(2)].exists
    /\ blobs[BarcodesBlobName(2)].exists
    /\ SentBy(1) # {}

\* the messages of run r in a queue
MessagesOf(q, r) == {m \in BagToSet(q) : m.body.run_id = r}

\* C11: the step of the starter that creates run r happens with records
\* staged; r is a run id not used before; the step adds one message to the
\* queue, the message of r with offset 0; and when it is added the blob of
\* barcodes, the blob of original entities and the empty results table of r
\* exist
C11_StarterEmitsOne ==
    [][\A r \in RunIds :
          (hist'[r].started /\ ~hist[r].started) =>
              /\ StagedBarcodes # {}
              /\ nextRun' = r /\ nextRun = r - 1
              /\ ~tables[ResultsTableName(r)].exists
              /\ ~blobs[BarcodesBlobName(r)].exists
              /\ ~blobs[OriginalEntitiesBlobName(r)].exists
              /\ MessagesOf(queue, r) = {}
              /\ MessagesOf(queue', r) = {[body |-> Message(r, 0), dq |-> 0]}
              /\ BagCardinality(queue') = BagCardinality(queue) + 1
              /\ \A m \in BagToSet(queue) : CopiesIn(m, queue') = CopiesIn(m, queue)
              /\ blobs'[BarcodesBlobName(r)].exists
              /\ blobs'[OriginalEntitiesBlobName(r)].exists
              /\ tables'[ResultsTableName(r)] = [exists |-> TRUE, rows |-> {}]]_vars

\* the second run has just been created beside the first: its message of
\* offset 0 is queued, its blobs and its empty results table are there
C11_Witness ==
    /\ hist[1].started /\ hist[1].finished = 0
    /\ hist[2].started /\ hist[2].invocations = <<>>
    /\ [body |-> Message(2, 0), dq |-> 0] \in BagToSet(queue)
    /\ tables[ResultsTableName(2)] = [exists |-> TRUE, rows |-> {}]
    /\ blobs[BarcodesBlobName(2)].exists
    /\ blobs[OriginalEntitiesBlobName(2)].exists

\* C12: a step taken while the staging table holds no record creates no
\* run: no run id is generated, no blob is uploaded, no results table is
\* created and no message is queued for a run that has not started; and
\* no run has an empty worklist
C12_NothingStagedNoRun ==
    [][/\ StagedBarcodes = {} =>
            /\ nextRun' = nextRun
            /\ \A r \in RunIds : ~hist[r].started =>
                 /\ ~hist'[r].started
                 /\ ~blobs'[BarcodesBlobName(r)].exists
                 /\ ~blobs'[OriginalEntitiesBlobName(r)].exists
                 /\ ~tables'[ResultsTableName(r)].exists
                 /\ MessagesOf(queue', r) = {}
       /\ \A r \in RunIds : hist'[r].started => Len(hist'[r].worklist) >= 1]_vars

\* the first run has drained the staging table and finished, nothing is
\* staged, and the starter has created no second run
C12_Witness ==
    /\ hist[1].finished = 1
    /\ StagedBarcodes = {}
    /\ nextRun = 1 /\ ~hist[2].started
    /\ queue = EmptyBag
    /\ \A n \in BlobNames : ~blobs[n].exists
    /\ \A r \in RunIds : ~tables[ResultsTableName(r)].exists

\* C16: the worklist the starter uploads for run r holds the barcodes that
\* have a record in the staging table when the starter reads it, each once:
\* none is omitted and none is added; the blob of original entities holds
\* their records
C16_WorklistIsSnapshot ==
    [][\A r \in RunIds :
          (hist'[r].started /\ ~hist[r].started) =>
              LET worklist == blobs'[BarcodesBlobName(r)].data
                  originals == blobs'[OriginalEntitiesBlobName(r)].data
              IN /\ Range(worklist) = {e.RowKey : e \in tables[StagingTableName].rows}
                 /\ Len(worklist) = Cardinality(Range(worklist))
                 /\ Range(originals) =
                       {e \in tables[StagingTableName].rows :
                           e.PartitionKey = SCF_NO_ROW_TRAY_CHECK_NAME}
                 /\ Len(originals) = Len(worklist)
                 /\ hist'[r].worklist = worklist]_vars

\* a run whose worklist is the two barcodes staged at its start, a third
\* barcode having been staged since
C16_Witness ==
    \E r \in RunIds :
        /\ hist[r].started
        /\ Len(blobs[BarcodesBlobName(r)].data) = 2
        /\ Range(blobs[BarcodesBlobName(r)].data) \subseteq StagedBarcodes
        /\ Cardinality(StagedBarcodes) = 3

Pending(r) ==
    {m \in BagToSet(queue) : Parses(m.body) /\ m.body.run_id = r}
        \cup {workers[w].msg : w \in {v \in 1..MaxWorkers :
                                        workers[v] # Idle /\ workers[v].msg.body.run_id = r}}

\* C14: once a message of run r is given up before the drain step, the run
\* has no message and no invocation in progress, and no step is one of its
\* worker: the run does not finalize, its results table and its blobs stay
\* as they are, and its drain step never deletes the staged records
C14_DroppedRunStalls ==
    [][\A r \in RunIds :
          (hist[r].dropped /\ hist[r].drains = 0) =>
              /\ Pending(r) = {}
              /\ hist'[r].invocations = hist[r].invocations
              /\ hist'[r].drains = 0
              /\ hist'[r].finished = 0
              /\ lastBatch' = lastBatch
              /\ tables[ResultsTableName(r)].exists
              /\ tables'[ResultsTableName(r)] = tables[ResultsTableName(r)]
              /\ blobs[BarcodesBlobName(r)].exists
              /\ blobs[OriginalEntitiesBlobName(r)].exists
              /\ blobs' = blobs
              /\ tables'[StagingTableName] = tables[StagingTableName]]_vars

\* the second message of a run was given up after failures: the first batch
\* is in the results table, the blob of barcodes is there, the worklist is
\* still staged
C14_Witness ==
    \E r \in RunIds :
        /\ hist[r].dropped
        /\ crashes = 0
        /\ Len(hist[r].invocations) = 1
        /\ ResultRows(r) # {}
        /\ Worklist(r) \subseteq StagedBarcodes
        /\ blobs[BarcodesBlobName(r)].exists

\* C15: an invocation in which a storage call raises fails: its message is
\* not consumed, it is delivered again unless this delivery was the last
C15_FaultPropagates ==
    [][crashes' < crashes =>
          \A m \in BagToSet(queue) :
              CopiesIn(m, queue') < CopiesIn(m, queue) =>
                  \/ Exhausted(m)
                  \/ CopiesIn([m EXCEPT !.dq = @ + 1], queue')
                        > CopiesIn([m EXCEPT !.dq = @ + 1], queue)]_vars

(***************************************************************************)
(* The Row/Tray predicate (SpecItems).  The item of a barcode does not     *)
(* change in SpecItems, so what the worker wrote for a barcode is what the *)
(* predicate says of the item the barcode has.                             *)
(***************************************************************************)
UpstreamItems == { get_item_by_barcode(b) : b \in {c \in Barcodes : alma[c] # "absent"} }
RowTrayFields(item) == { item.alternative_call_number, item.internal_note_1 }
Populated(f) == ~f.isNone
InExemptLocation(f) == \E loc \in SKIP_LOCATIONS : Contains(f.v, loc)
Recorded(r) == { e.RowKey : e \in ResultRows(r) }

\* C17 (amended): the Row/Tray predicate is true of an item if and only if
\* the alternative call number is None, or one of the two fields is not None,
\* holds no exempted location name and does not match ^R.*M.*S; and the
\* internal note is not one of the excluded notes.  The worker writes a
\* result for a barcode only if this holds of its item
C17_Predicate ==
    /\ \A item \in UpstreamItems :
         SCFNoRowTray_should_process(item) <=>
           /\ \/ item.alternative_call_number.isNone
              \/ \E f \in RowTrayFields(item) :
                   Populated(f) /\ ~InExemptLocation(f) /\ ~MatchesRowTray(f.v)
           /\ ~(Populated(item.internal_note_1)
                  /\ item.internal_note_1.v \in EXCLUDED_NOTES)
    /\ \A r \in RunIds : \A b \in Recorded(r) :
         LET item == get_item_by_barcode(b)
         IN \/ item.alternative_call_number.isNone
            \/ \E f \in RowTrayFields(item) :
                 Populated(f) /\ ~InExemptLocation(f) /\ ~MatchesRowTray(f.v)

\* the worker has written a result for an item whose alternative call number
\* matches the pattern and whose internal note does not
C17_Witness ==
    /\ alma[1] = "match/wrong"
    /\ \E r \in RunIds : 1 \in Recorded(r)

\* C17 as stated: the predicate is true iff none of the populated fields
\* outside the exempted locations matches the pattern and the internal note
\* is not an excluded note
C17_Original ==
    \A item \in UpstreamItems :
        SCFNoRowTray_should_process(item) <=>
          /\ \A f \in RowTrayFields(item) :
               (Populated(f) /\ ~InExemptLocation(f)) => ~MatchesRowTray(f.v)
          /\ ~(Populated(item.internal_note_1)
                 /\ item.internal_note_1.v \in EXCLUDED_NOTES)

\* C18 (amended): an item fails Row/Tray validation exactly when its
\* alternative call number is None, whatever the internal note holds, or one
\* of the two fields is not None, holds no exempted location name and does
\* not match the pattern.  An item with the internal note unset and the
\* alternative call number set, not exempted and matching does not fail; an
\* item with the alternative call number unset fails even when the internal
\* note is set, not exempted and matching
C18_FailsValidation ==
    \A item \in UpstreamItems :
        LET fails == no_row_tray_data(item) \/ wrong_row_tray_data(item)
            alt == item.alternative_call_number
            note == item.internal_note_1
            good(f) == Populated(f) /\ ~InExemptLocation(f) /\ MatchesRowTray(f.v)
        IN /\ fails <=> ~(/\ Populated(alt)
                          /\ \A f \in {alt, note} :
                               (Populated(f) /\ ~InExemptLocation(f))
                                  => MatchesRowTray(f.v))
           /\ (good(alt) /\ ~Populated(note)) => ~fails
           /\ (~Populated(alt) /\ good(note)) => fails

\* the worker has written a result for an item whose alternative call number
\* is unset and whose internal note matches the pattern
C18_Witness ==
    /\ alma[1] = "none/match"
    /\ get_item_by_barcode(1).alternative_call_number.isNone
    /\ MatchesRowTray(get_item_by_barcode(1).internal_note_1.v)
    /\ \E r \in RunIds : 1 \in Recorded(r)

\* C18 as stated: an item fails exactly when neither field is populated or
\* some populated field outside the exempted locations does not match; an
\* item with one field unset and the other populated, not exempted and
\* matching does not fail
C18_Original ==
    \A item \in UpstreamItems :
        LET fails == no_row_tray_data(item) \/ wrong_row_tray_data(item)
            alt == item.alternative_call_number
            note == item.internal_note_1
        IN fails <=>
             \/ ~Populated(alt) /\ ~Populated(note)
             \/ \E f \in {alt, note} :
                  Populated(f) /\ ~InExemptLocation(f) /\ ~MatchesRowTray(f.v)

\* the internal note of the item of barcode b equals an excluded note value
HasExcludedNote(b) ==
    /\ alma[b] # "absent"
    /\ ~get_item_by_barcode(b).internal_note_1.isNone
    /\ get_item_by_barcode(b).internal_note_1.v \in EXCLUDED_NOTES

\* C19: an item whose internal note is one of the excluded notes never has
\* the Row/Tray predicate true, whatever its row/tray fields hold: no step
\* adds a record for its barcode to the staging table, and the worker neither
\* writes a result for it nor reports it
C19_ExcludedNote ==
    /\ [](\A b \in Barcodes : HasExcludedNote(b) =>
            /\ ~SCFNoRowTray_should_process(get_item_by_barcode(b))
            /\ \A r \in RunIds : b \notin Recorded(r)
            /\ \A i \in 1..Len(notifier) :
                 \A item \in notifier[i].items : item.barcode # b)
    /\ [][\A b \in Barcodes :
            (HasExcludedNote(b) /\ b \notin StagedBarcodes) =>
                b \notin {e.RowKey : e \in tables'[StagingTableName].rows}]_vars

\* the item of barcode 1 has no alternative call number and the note
\* "DO NOT DELETE": a run that had it in its worklist has processed all of
\* the worklist and written a result for the other barcode only, and the
\* webhook that handled barcode 1 after the drain has not staged it
C19_Witness ==
    /\ alma[1] = "none/keep"
    /\ get_item_by_barcode(1).internal_note_1.v = <<"DO NOT DELETE">>
    /\ hooked = 1
    /\ 1 \notin StagedBarcodes
    /\ \E r \in RunIds :
         /\ Worklist(r) = {1, 3}
         /\ hist[r].drains = 1
         /\ Recorded(r) = {3}

\* C20: a webhook invocation sends no notification request; when its item
\* is eligible and the Row/Tray predicate is true of it, the staging table
\* holds the record (check name, barcode) when the invocation returns;
\* otherwise the invocation leaves the staging table as it was
C20_WebhookStages ==
    [][webhooks' < webhooks =>
         LET b == hooked'
             item_data == SCFShared_should_process("ok", <<"ok">>,
                                                   get_item_by_barcode(b))
             staging == tables'[StagingTableName]
         IN /\ notifier' = notifier
            /\ IF IsItem(item_data) /\ SCFNoRowTray_should_process(item_data)
               THEN /\ staging.exists
                    /\ [PartitionKey |-> SCF_NO_ROW_TRAY_CHECK_NAME, RowKey |-> b]
                          \in staging.rows
               ELSE staging = tables[StagingTableName]]_vars

\* the webhook has handled barcode 2, whose call number "ABC" does not match
\* and which was not staged before: its record is in the staging table and
\* no notification request has been sent
C20_Witness ==
    /\ hooked = 2
    /\ webhooks < MaxWebhooks
    /\ SCFNoRowTray_should_process(get_item_by_barcode(2))
    /\ StagedEntity(2) \in tables[StagingTableName].rows
    /\ notifier = <<>>

(***************************************************************************)
(* The webhook (SpecStaging, SpecHooks).                                   *)
(***************************************************************************)
\* the records of table storage T under the key (check name, b)
StagedUnder(T, b) ==
    { e \in T[StagingTableName].rows :
        e.PartitionKey = SCF_NO_ROW_TRAY_CHECK_NAME /\ e.RowKey = b }

\* C21: the staging table never holds two records under one (check name,
\* barcode) key; a webhook that stages a barcode, for the first time or
\* again, leaves exactly one record under its key and the records under the
\* other keys as they were
C21_StagingIdempotent ==
    /\ [](\A b \in Barcodes : Cardinality(StagedUnder(tables, b)) <= 1)
    /\ [][(webhooks' < webhooks /\ reply'.staged) =>
            /\ Cardinality(StagedUnder(tables', hooked')) = 1
            /\ \A b \in Barcodes \ {hooked'} :
                 StagedUnder(tables', b) = StagedUnder(tables, b)
            /\ reply'.had_record => tables' = tables]_vars

\* the last of the deliveries has staged a barcode that an earlier delivery
\* had staged, another barcode being staged too
C21_Witness ==
    /\ webhooks = 0
    /\ reply.staged /\ reply.had_record
    /\ Cardinality(StagedUnder(tables, hooked)) = 1
    /\ Cardinality(tables[StagingTableName].rows) = 2

\* C22: a webhook invocation for an eligible item whose barcode does not end
\* in 'X' calls the update of the upstream platform once and then sends one
\* notification request
C22_NoXRunsInline ==
    [][(/\ webhooks' < webhooks
        /\ reply'.eligible
        /\ ~EndsWith(barcode_text(hooked'), "X")) =>
            /\ reply'.updates = 1
            /\ Len(notifier') = Len(notifier) + 1]_vars

\* C23: SCFNoX.should_process is false of an item whose barcode ends in 'X'
\* and true of every other item; the webhook that handles an eligible item
\* evaluates it so, and makes no update call for a barcode that ends in 'X'
C23_NoXPredicate ==
    /\ \A item \in UpstreamItems :
         LET text == barcode_text(item.barcode)
         IN SCFNoX_should_process(item) <=> text[Len(text)] # "X"
    /\ reply.eligible =>
         LET text == barcode_text(hooked)
         IN /\ reply.no_x <=> text[Len(text)] # "X"
            /\ text[Len(text)] = "X" => reply.updates = 0

\* the webhook has handled an eligible item whose barcode ends in 'X'
C23_Witness ==
    /\ reply.eligible
    /\ reply.status = 200
    /\ barcode_text(hooked) = <<ToString(NumBarcodes), "X">>
    /\ ~reply.no_x
    /\ reply.updates = 0

\* the number of attempts of a script that fail with a network error before
\* the first attempt that does not
TransientFailures(script) ==
    Cardinality({ k \in 1..Len(script) : \A j \in 1..k : script[j] = "net" })

\* C24: the eligibility filter makes at most 3 fetch attempts for a barcode:
\* it tries again after a network failure, waiting 2 s after the first and
\* 4 s after the second and not at all after the third, it stops at the
\* first attempt that is no network failure, and after three network
\* failures it answers "not eligible" and the invocation ends normally
C24_BoundedRetry ==
    reply.env.check = "ok" =>
        LET n == TransientFailures(reply.env.script)
        IN /\ reply.fetches <= 3
           /\ reply.fetches = Min(n + 1, 3)
           /\ reply.waits = [k \in 1..Min(n, 2) |-> 2 * k]
           /\ n >= 3 => (~reply.eligible /\ ~reply.staged /\ reply.status = 200)
           /\ (n < 3 /\ reply.env.script[n + 1] = "ok" /\ alma[hooked] = "failing")
                 => reply.eligible

\* the webhook met three network failures, a fourth attempt would have
\* succeeded: three fetches, waits of 2 s and 4 s, not eligible, answer 200
C24_Witness ==
    /\ reply.env.check = "ok"
    /\ reply.env.script = <<"net", "net", "net", "ok">>
    /\ reply.fetches = 3
    /\ reply.waits = <<2, 4>>
    /\ ~reply.eligible
    /\ reply.status = 200

\* the eligibility check of the last webhook got a definitive answer that
\* there is no such item: an AlmaApiError, or an empty result
NotFound ==
    /\ reply.env.check = "ok"
    /\ LET n == TransientFailures(reply.env.script)
       IN /\ n < 3
          /\ \/ reply.env.script[n + 1] = "api"
             \/ reply.env.script[n + 1] = "ok" /\ alma[hooked] = "absent"

\* C25 (amended): on a definitive "not found" the filter answers "not
\* eligible" at once: no attempt and no wait follows that answer.  When it
\* is the answer to the first attempt, one fetch attempt has been made and
\* no wait; when it follows n network failures, n + 1 attempts have been
\* made and the n waits of those failures
C25_NotFoundIsFinal ==
    NotFound =>
        LET n == TransientFailures(reply.env.script)
        IN /\ ~reply.eligible /\ ~reply.staged
           /\ reply.fetches = n + 1
           /\ Len(reply.waits) = n
           /\ n = 0 => (reply.fetches = 1 /\ reply.waits = <<>>)

\* a "not found" after two network failures: three attempts, two waits
C25_Witness ==
    /\ NotFound
    /\ reply.env.script = <<"net", "net", "api">>
    /\ reply.fetches = 3
    /\ reply.waits = <<2, 4>>
    /\ ~reply.eligible

\* C25 as stated: on a definitive "not found", also after network failures,
\* exactly one fetch attempt is made in the invocation and no wait occurs
C25_Original ==
    NotFound => (~reply.eligible /\ reply.fetches = 1 /\ reply.waits = <<>>)

\* C26: when the check "ScfShared" is absent or has no API key, the filter
\* answers "not eligible" without a fetch attempt and without a wait, and the
\* invocation changes no item upstream and stages nothing
C26_ConfigurationFault ==
    /\ [](reply.env.check \in {"absent", "nokey"} =>
            /\ ~reply.eligible
            /\ reply.fetches = 0
            /\ reply.waits = <<>>
            /\ reply.updates = 0
            /\ ~reply.staged)
    /\ [][(webhooks' < webhooks /\ reply'.env.check \in {"absent", "nokey"}) =>
            /\ alma' = alma
            /\ tables' = tables
            /\ notifier' = notifier]_vars

\* the webhook was given a failing item that the upstream platform would have
\* returned at once, the check has no API key: nothing fetched, nothing staged
C26_Witness ==
    /\ reply.env = [check |-> "nokey", script |-> <<"ok">>]
    /\ reply.status = 200
    /\ alma[hooked] = "failing"
    /\ reply.fetches = 0
    /\ hooked \notin StagedBarcodes

\* the word "discard" in any spelling of upper and lower case occurs in s
NamesDiscard(s) == \E i \in 1..Len(s) : s[i] \in {"discard", "Discard", "DISCARD"}

\* what C27 asks of barcode b under the outcome env of the eligibility check
ShouldBeEligible(b, env) ==
    /\ env.check = "ok"
    /\ LET n == TransientFailures(env.script)
       IN n < 3 /\ env.script[n + 1] = "ok"
    /\ alma[b] # "absent"
    /\ LET item == ItemOfKind(b, alma[b])
       IN /\ ~(Populated(item.temp_location) /\ NamesDiscard(item.temp_location.v))
          /\ ~NamesDiscard(item.location)
          /\ Populated(item.provenance)
          /\ item.provenance.v \in PROVENANCE

\* C27: SCFShared.should_process returns the fetched item if and only if the
\* check is configured with an API key, the fetch returned an item, neither
\* the temporary location nor the location of the item names "discard" in
\* any case, and the provenance of the item is in the allow-list; otherwise
\* it returns None.  The webhook finds an item eligible exactly then
C27_Eligibility ==
    /\ \A b \in Barcodes, env \in envs :
         LET found == get_item_by_barcode(b)
             result == SCFShared_should_process(env.check, env.script, found)
         IN IF ShouldBeEligible(b, env) THEN result = found /\ IsItem(result)
            ELSE result = NoItem
    /\ reply.env.check # "none" =>
         (reply.eligible <=> ShouldBeEligible(hooked, reply.env))

\* the webhook fetched at once an item of an allowed provenance whose
\* temporary location is "Discard bin" and did not find it eligible
C27_Witness ==
    /\ reply.env = [check |-> "ok", script |-> <<"ok">>]
    /\ hooked = 1
    /\ alma[1] = "stacks:Discard:member"
    /\ reply.fetches = 1
    /\ ~reply.eligible

\* C28: a POST that passes the signature validation and whose body is JSON
\* with a barcode is answered with 200, whatever the fetch, the checks and
\* the staging write did
C28_Always200 ==
    [][(/\ webhooks' < webhooks
        /\ reply'.req.method = "POST"
        /\ validate_webhook_signature(reply'.req.body, reply'.deploy.secret,
                                      reply'.req.signature)
        /\ reply'.req.body.shape = "object"
        /\ reply'.req.body.barcode \in Barcodes) =>
            reply'.status = 200]_vars

\* the signature of the last request is missing or is not the one of its
\* body under the configured secret
BadSignature ==
    \/ reply.req.signature = NoSignature
    \/ reply.req.signature # Signature(reply.deploy.secret, reply.req.body)

\* the last request was answered before the eligibility filter was reached
NothingDone ==
    /\ reply.env.check = "none"
    /\ reply.fetches = 0
    /\ reply.updates = 0
    /\ ~reply.staged

\* C29 (amended): unless the function app runs in the Development
\* environment, where no signature is looked at, a POST whose signature is
\* missing or does not match is answered 403.  A POST that gets past this
\* and whose body is no JSON, or is a JSON object without a barcode, is
\* answered 400; one whose body is JSON of another shape is answered 500.  In
\* each of these cases nothing is fetched, updated, staged or notified
C29_Rejections ==
    /\ [](reply.req.method = "POST" =>
            /\ (~reply.deploy.local_dev /\ BadSignature) =>
                  (reply.status = 403 /\ NothingDone)
            /\ (reply.deploy.local_dev \/ ~BadSignature) =>
                  /\ (reply.req.body.shape = "invalid"
                        \/ (reply.req.body.shape = "object"
                              /\ reply.req.body.barcode = 0))
                       => (reply.status = 400 /\ NothingDone)
                  /\ reply.req.body.shape = "array"
                       => (reply.status = 500 /\ NothingDone)
                  /\ (reply.req.body.shape = "object"
                        /\ reply.req.body.barcode \in Barcodes)
                       => reply.env.check # "none")
    /\ [][(webhooks' < webhooks /\ reply'.env.check = "none") =>
            /\ alma' = alma
            /\ tables' = tables
            /\ notifier' = notifier]_vars

\* in the Development environment a POST without a signature was handled and
\* its item staged
C29_Witness ==
    /\ reply.req.method = "POST"
    /\ reply.deploy.local_dev
    /\ reply.req.signature = NoSignature
    /\ reply.status = 200
    /\ reply.staged
    /\ hooked \in StagedBarcodes

\* C29 as stated: a POST whose signature is missing or does not match is
\* answered 403, one whose body is malformed or has no barcode is answered
\* with a client-error status, and in these cases nothing is done
C29_Original ==
    reply.req.method = "POST" =>
        /\ BadSignature => (reply.status = 403 /\ NothingDone)
        /\ (~BadSignature /\ ~(reply.req.body.shape = "object"
                                 /\ reply.req.body.barcode \in Barcodes))
              => (reply.status \in 400..499 /\ NothingDone)

(***************************************************************************)
(* The continuation message (SpecFaults).                                  *)
(***************************************************************************)
\* the messages of which q2 holds more copies than q1
Emitted(q1, q2) == { m \in BagToSet(q2) : CopiesIn(m, q2) > CopiesIn(m, q1) }

\* C30: a worker invocation that is not the last of its run emits one
\* message: it carries the run id, the results table, the container and the
\* two blob names of the message consumed, and as offset the offset consumed
\* plus the length of the chunk processed, which is greater than the offset
\* consumed and less than the length of the worklist
C30_Continuation ==
    [][\A r \in RunIds :
          (/\ Len(hist'[r].invocations) = Len(hist[r].invocations) + 1
           /\ ~hist'[r].invocations[Len(hist'[r].invocations)].final) =>
             LET inv == hist'[r].invocations[Len(hist'[r].invocations)]
             IN \E m \in MessagesOf(queue, r) :
                  /\ m.body.offset = inv.offset
                  /\ \E n \in Emitted(queue, queue') :
                       /\ Emitted(queue, queue') = {n}
                       /\ n.body.run_id = m.body.run_id
                       /\ n.body.results_table_name = m.body.results_table_name
                       /\ n.body.container_name = m.body.container_name
                       /\ n.body.original_entities_blob_name
                            = m.body.original_entities_blob_name
                       /\ n.body.barcodes_to_process_blob_name
                            = m.body.barcodes_to_process_blob_name
                       /\ n.body.offset = m.body.offset + Len(inv.chunk)
                       /\ n.body.offset > m.body.offset
                       /\ n.body.offset < Len(hist[r].worklist)]_vars

\* the message of offset batch_size of a run of three barcodes is in the
\* queue after the first invocation of the run
C30_Witness ==
    \E r \in RunIds :
        /\ Len(hist[r].worklist) = 3
        /\ Len(hist[r].invocations) = 1
        /\ hist[r].invocations[1].offset = 0
        /\ \E m \in MessagesOf(queue, r) :
             /\ m.body = Message(r, Len(hist[r].invocations[1].chunk))
             /\ m.body.offset \in 1..2

Finalized(r) ==
    /\ \E i \in 1..Len(hist[r].invocations) : hist[r].invocations[i].final
    /\ hist[r].drains >= 1
    /\ Worklist(r) \cap StagedBarcodes = {}
    /\ RunStorageGone(r)
    /\ hist[r].finished >= 1

\* C31: under fair delivery of queue messages, with no message dropped and no
\* invocation failing, every run the coordinator starts eventually reaches
\* finalization: the invocation that decides on the report has run, the
\* staged records of the worklist are deleted, and the results table and
\* both blobs of the run are removed.
C31_RunsFinalize ==
    \A r \in RunIds : hist[r].started ~> Finalized(r)

\* a run of three barcodes that took more than one invocation is finalized
C31_Witness ==
    \E r \in RunIds :
        /\ Len(hist[r].worklist) = 3
        /\ Len(hist[r].invocations) >= 2
        /\ Finalized(r)

Continuations(q1, q2) == {m \in Emitted(q1, q2) : m.body.offset > 0}

Continues(r) ==
    /\ Len(hist'[r].invocations) = Len(hist[r].invocations) + 1
    /\ ~hist'[r].invocations[Len(hist'[r].invocations)].final

Finalizes(r) ==
    \/ /\ Len(hist'[r].invocations) = Len(hist[r].invocations) + 1
       /\ hist'[r].invocations[Len(hist'[r].invocations)].final
    \/ \E w \in 1..MaxWorkers :
         /\ workers[w] # Idle
         /\ workers[w].msg.body.run_id = r
         /\ workers'[w] # workers[w]

NothingRemoved ==
    /\ notifier' = notifier
    /\ tables[StagingTableName].rows \subseteq tables'[StagingTableName].rows
    /\ \A t \in TableNames : tables[t].exists => tables'[t].exists
    /\ \A n \in BlobNames : blobs[n].exists => blobs'[n].exists

\* C32: within one worker invocation continuation and finalization exclude
\* each other: a step that puts a continuation message on the queue sends no
\* report, deletes no staged record, no table and no blob, and it is the
\* step of an invocation recorded as not final; a step of a finalizing
\* invocation puts no message on the queue.
C32_ContinueXorFinalize ==
    [][/\ Continuations(queue, queue') # {} =>
            /\ NothingRemoved
            /\ \E r \in RunIds : Continues(r)
            /\ \A r \in RunIds : ~Finalizes(r)
       /\ \A r \in RunIds : Continues(r) => NothingRemoved
       /\ \A r \in RunIds : Finalizes(r) => Emitted(queue, queue') = {}]_vars

\* a run whose first invocation continued has been finalized with its
\* storage removed, while nothing of it is queued
C32_Witness ==
    \E r \in RunIds :
        /\ Len(hist[r].invocations) >= 2
        /\ ~hist[r].invocations[1].final
        /\ hist[r].invocations[Len(hist[r].invocations)].final
        /\ hist[r].finished >= 1
        /\ ~blobs[BarcodesBlobName(r)].exists
        /\ MessagesOf(queue, r) = {}

\* C33: for each run at most one notification request is ever handed to the
\* notifier queue, also when a continuation message of the run is delivered
\* more than once or an invocation of the worker is retried
C33_AtMostOneNotification ==
    \A r \in RunIds : Cardinality(SentBy(r)) <= 1

Calls(name) == {i \in 1..Len(nox.calls) : nox.calls[i] = name}

ProcessedInOrder ==
    /\ nox.check = "absent" => nox.calls = <<>> /\ ~nox.raised
    /\ nox.check \in CheckStates \ {"absent"} =>
         /\ Cardinality(Calls("update_item")) = 1
         /\ \A i \in Calls("send_queue_message"), j \in Calls("update_item") : j < i
         /\ nox.outcome = "raises" =>
              Calls("send_queue_message") = {} /\ nox.raised
         /\ nox.outcome = "ok" =>
              Cardinality(Calls("send_queue_message")) = 1 /\ ~nox.raised

\* C37: when the definition of the check "ScfNoX" is absent, SCFNoX.process
\* calls no update and sends no notification; otherwise it calls the update
\* once, before the one notification it sends, and it sends none when the
\* update call raises; the notifier queue grows by one request exactly when
\* the update call returned, and an item is saved with one more marker only
\* by an update call that returned
C37_ProcessOrder ==
    /\ []ProcessedInOrder
    /\ [][/\ Len(notifier') = Len(notifier)
                + (IF nox'.check # "absent" /\ nox'.outcome = "ok" THEN 1 ELSE 0)
          /\ nox'.marks # nox.marks =>
                nox'.check # "absent" /\ nox'.outcome = "ok"]_vars

\* process ran without a check definition, ran with an update that raised,
\* and ran to the end: the three cases of the last call
C37_Witness ==
    /\ nox.check \in CheckStates \ {"absent"}
    /\ nox.outcome = "raises"
    /\ nox.calls = <<"update_item">>
    /\ nox.raised
    /\ Len(notifier) = 1
    /\ notifier[1].barcode = <<"1", "X">>
    /\ nox.marks[1] = 1
    /\ nox.marks[2] = 0

\* the markers the canonical barcode of the item first known as b carries
MarkersOf(b) ==
    Cardinality({i \in 2..Len(CanonicalBarcode(b)) : CanonicalBarcode(b)[i] = "X"})

AtMostOneMarker == \A b \in Barcodes : MarkersOf(b) <= 1

\* C34: however the webhook deliveries for an item follow one another, the
\* same event delivered again included, a delivery for an item whose
\* canonical barcode ends in 'X' finds the predicate of the barcode-suffix
\* check false and makes no update call, no delivery changes a barcode or an
\* item upstream, and no canonical barcode carries more than one marker
C34_NoSecondMarker ==
    /\ []AtMostOneMarker
    /\ [][webhooks' < webhooks =>
            /\ nox' = nox
            /\ alma' = alma
            /\ notifier' = notifier
            /\ (reply'.eligible /\ EndsWith(CanonicalBarcode(hooked'), "X")) =>
                  ~reply'.no_x /\ reply'.updates = 0]_vars

\* the last of three deliveries was for the item whose barcode ends in 'X' and
\* which an earlier delivery had staged: the predicate was false again and
\* the barcode still carries its one marker
C34_Witness ==
    /\ webhooks = 0
    /\ hooked = NumBarcodes
    /\ reply.had_record
    /\ reply.eligible
    /\ ~reply.no_x
    /\ reply.updates = 0
    /\ CanonicalBarcode(hooked) = <<ToString(NumBarcodes), "X">>

\* what ScfWebhook does with a request, as a function of the request, the
\* deployment, what the environment does to the fetch and to the staging
\* write, and the tables it finds
Handled(req, deploy, env, fault, T) ==
    LET answered(status) ==
            [status |-> status, fetches |-> 0, waits |-> <<>>,
             eligible |-> FALSE, no_x |-> FALSE, updates |-> 0,
             staged |-> FALSE, tables |-> T]
    IN IF req.method # "POST" THEN answered(200)
       ELSE IF /\ ~deploy.local_dev
               /\ ~validate_webhook_signature(req.body, deploy.secret, req.signature)
       THEN answered(403)
       ELSE IF ParseItem(req.body) \in {"ValueError", "missing"} THEN answered(400)
       ELSE IF ParseItem(req.body) = "Exception" THEN answered(500)
       ELSE LET item_data == SCFShared_should_process(env.check, env.script,
                                                      ItemOfEvent(req.body))
                to_stage == ToStage(item_data)
                raised == to_stage /\ fault
            IN [status |-> IF raised THEN 500 ELSE 200,
                fetches |-> Fetches(env.check, env.script),
                waits |-> Waits(env.check, env.script),
                eligible |-> IsItem(item_data),
                no_x |-> IsItem(item_data) /\ SCFNoX_should_process(item_data),
                updates |-> 0,
                staged |-> to_stage /\ ~raised,
                tables |-> IF to_stage /\ ~raised THEN stage(T, item_data) ELSE T]

\* the event of a request with the rest of its payload replaced, signed with
\* the secret the request was signed with
WithPayload(req, k) ==
    [req EXCEPT !.body = [req.body EXCEPT !.item = k],
                !.signature = IF req.signature = NoSignature THEN NoSignature
                              ELSE Signature(req.signature[2],
                                             [req.body EXCEPT !.item = k])]

Observed(h) ==
    /\ tables' = h.tables
    /\ reply'.status = h.status
    /\ reply'.fetches = h.fetches
    /\ reply'.waits = h.waits
    /\ reply'.eligible = h.eligible
    /\ reply'.no_x = h.no_x
    /\ reply'.updates = h.updates
    /\ reply'.staged = h.staged

PayloadIgnored ==
    webhooks' < webhooks =>
        /\ alma' = alma /\ nox' = nox /\ notifier' = notifier /\ queue' = queue
        /\ \E fault \in BOOLEAN :
             /\ Observed(Handled(reply'.req, reply'.deploy, reply'.env, fault,
                                 tables))
             /\ ParseItem(reply'.req.body) = "barcode" =>
                  \A k \in PayloadKinds :
                      Observed(Handled(WithPayload(reply'.req, k), reply'.deploy,
                                       reply'.env, fault, tables))

\* C35: the webhook's outcome depends on the payload of a change event only
\* through the barcode: what a delivery does (its fetches and waits, its
\* eligibility and barcode-suffix decisions, its update calls, its staging
\* write and its response status) is what the handler does, against the
\* same upstream state and tables and the same behaviour of the environment,
\* for the event of the same barcode with any other payload
C35_PayloadIgnored == [][PayloadIgnored]_vars

\* the webhook has staged an item, failing upstream, on an event that
\* describes it as sitting in a discard location
C35_Witness ==
    /\ reply.req.method = "POST"
    /\ reply.req.body.item = "discard"
    /\ reply.status = 200
    /\ reply.eligible
    /\ reply.staged
    /\ hooked \in Barcodes
    /\ hooked \in StagedBarcodes
    /\ alma[hooked] # "discard"

\* the filter hands on the item it fetched, as fetched, or nothing
ReturnsFetchedOrNothing ==
    \A env \in envs, b \in Barcodes :
        SCFShared_should_process(env.check, env.script, get_item_by_barcode(b))
            \in {NoItem, get_item_by_barcode(b)}

\* a delivery that got as far as the filter
Filtered ==
    /\ webhooks' < webhooks
    /\ reply'.req.method = "POST"
    /\ ParseItem(reply'.req.body) = "barcode"
    /\ reply'.status \in {200, 500}

FilterWritesNothing ==
    Filtered =>
        /\ alma' = alma /\ nox' = nox /\ notifier' = notifier
        /\ queue' = queue /\ blobs' = blobs
        /\ reply'.updates = 0
        /\ ~reply'.eligible => tables' = tables /\ ~reply'.staged
        /\ reply'.eligible =>
             tables' \in {tables, stage(tables, get_item_by_barcode(hooked'))}

\* C36: SCFShared.should_process has no effect but the upstream read: what it
\* returns is the fetched item unchanged or nothing, and a delivery whose
\* item it rejects, for whatever reason, leaves the upstream items, the
\* tables, the blobs and both queues as they were and makes no update call;
\* the only write of a delivery whose item it accepts is the staging of the
\* item as fetched
C36_FilterReadsOnly ==
    /\ []ReturnsFetchedOrNothing
    /\ [][FilterWritesNothing]_vars

\* the filter rejected, after one fetch, an item that was staged earlier and
\* has since lost its provenance: the staged record is as it was
C36_Witness ==
    /\ hooked = 1
    /\ alma[1] = "stacks:stacks:none"
    /\ reply.env = [check |-> "ok", script |-> <<"ok">>]
    /\ reply.fetches = 1
    /\ ~reply.eligible
    /\ reply.had_record
    /\ tables[StagingTableName] = StagingFor({1})
    /\ notifier = <<>>
    /\ queue = EmptyBag

Reported(r) ==
    UNION {{item.barcode : item \in notifier[i].items} : i \in SentBy(r)}

SkippedLeftOut ==
    \A r \in RunIds :
        /\ hist[r].skipped \subseteq Worklist(r)
        /\ hist[r].skipped \cap Recorded(r) = {}
        /\ hist[r].skipped \cap Reported(r) = {}

SkippedDrained ==
    \A r \in RunIds :
        hist'[r].drains > hist[r].drains =>
            hist[r].skipped \cap StagedBarcodes' = {}

\* C38: a barcode of the worklist for which the eligibility check returned no
\* item during the run has no entity in the results table of the run and is
\* in no notification request of the run, and the drain step of the run
\* deletes its record from the staging table all the same
C38_SkippedStillDrained ==
    /\ []SkippedLeftOut
    /\ [][SkippedDrained]_vars

\* a finished run that skipped one barcode of its worklist and reported
\* another: the skipped one is staged no more
C38_Witness ==
    \E r \in RunIds :
        /\ hist[r].finished >= 1
        /\ hist[r].skipped # {}
        /\ hist[r].skipped # Worklist(r)
        /\ Reported(r) # {}
        /\ hist[r].skipped \cap StagedBarcodes = {}

\* the slots whose finalizing invocation found no definition of the check
Unresolved(W) ==
    {w \in 1..MaxWorkers : W[w] # Idle /\ W[w].report_check = "absent"}

UnresolvedFinalization ==
    /\ \A w \in Unresolved(workers') \ Unresolved(workers) :
         /\ notifier' = notifier
         /\ reports' = reports
    /\ \A w \in Unresolved(workers) :
         LET r == workers[w].msg.body.run_id
         IN /\ workers'[w] # workers[w] =>
                 /\ notifier' = notifier
                 /\ reports' = reports
            /\ hist'[r].drains > hist[r].drains =>
                 Worklist(r) \cap StagedBarcodes' = {}
            /\ hist'[r].finished > hist[r].finished =>
                 /\ ~tables'[ResultsTableName(r)].exists
                 /\ ~blobs'[OriginalEntitiesBlobName(r)].exists
                 /\ ~blobs'[BarcodesBlobName(r)].exists
                 /\ \A i \in 1..Len(notifier') : notifier'[i].sent_by # r
                 /\ hist'[r].drains >= 1
            /\ workers'[w] # Idle => workers'[w].report_check = "absent"

\* C39: when the definition of the Row/Tray check is not found at the
\* finalization of a run, the report handler sends no notification request
\* and uploads no report blob, and the invocation goes on to delete the staged
\* records of the worklist, the results table and both blobs of the run: the
\* items still failing are not reported and not staged any more
C39_UnresolvedCheck == [][UnresolvedFinalization]_vars

\* a finalizing invocation that found no definition has drained the staging
\* table: the results table holds the items still failing, nothing was sent
\* or uploaded, and no barcode of the worklist is staged
C39_Witness ==
    \E w \in Unresolved(workers) :
        /\ workers[w].pc = "delete_table"
        /\ ItemsRecorded(workers[w].msg.body.run_id) # {}
        /\ notifier = <<>>
        /\ reports = {}
        /\ Worklist(workers[w].msg.body.run_id) \cap StagedBarcodes = {}

=============================================================================
